---- MODULE Spec2Model ----
(***************************************************************************)
(* tinymap: array-backed sorted containers (ArrayMap, ArraySet) and the    *)
(* auto-promoting hybrids (TinyMap, TinySet).                              *)
(*                                                                         *)
(* A behaviour drives ONE container (chosen in Init by `kind`) through its *)
(* public operations.  Pure methods are operators over a container value;  *)
(* every mutating method is an operator that returns the new container and *)
(* the method's return value, and an action that applies it.               *)
(*                                                                         *)
(* Specifications                                                          *)
(*   Spec      the mutating calls of the four containers, plain values     *)
(*   SpecFixed    those of ArrayMap / ArraySet                             *)
(*   SpecPromote  those of TinyMap / TinySet                               *)
(*   SpecEntry    the Entry calls of ArrayMap                              *)
(*   SpecTiny  TinyMap / TinySet under every public operation              *)
(*   SpecTinyEntry  insert, remove and entry(key).or_insert on TinyMap     *)
(*   SpecDrop  the containers holding values that count their destructions *)
(*             (drop, clear, consuming iteration, promotion)               *)
(*   SpecCollect  FromIterator, Deserialize and From<array> applied to an  *)
(*             input                                                       *)
(*   SpecArray  ArrayMap / ArraySet under insert, remove, clear and the    *)
(*             read-only calls                                             *)
(*   SpecIndex  get, remove and map[key] on ArrayMap and TinyMap           *)
(*   SpecKey   ArrayMap with key objects that are equal but distinct       *)
(*   SpecLib   the Default-based ArrayMap of lib.rs                        *)
(*   SpecExtend  ArrayMap::extend applied to a built map and an iterator   *)
(*   SpecEq    == on two TinyMaps / TinySets in either representation      *)
(*                                                                         *)
(* Encodings                                                               *)
(*   Option<T>        <<>> for None, <<x>> for Some(x)                     *)
(*   Inner<(K, V)>    <<>> for an uninitialised slot, <<k, v>> otherwise   *)
(*   Entry<T> (set)   <<>> for an uninitialised slot, <<x>> otherwise      *)
(*   ArrayMap/Set     [array |-> [0..CAPACITY-1 -> slot], len |-> Nat]     *)
(*   BTreeMap<K, V>   [Keys -> Option<V>]                                  *)
(*   BTreeSet<T>      a subset of Keys                                     *)
(*   return values    [tag |-> "Ok" | "Err" | "Return" | "Panic", val]     *)
(***************************************************************************)
EXTENDS Integers, Sequences, FiniteSets, TLC

\* A::CAPACITY of the array type the containers are instantiated with.
CAPACITY == 3
\* Keys (and set items) are 1..MaxKey, values are 1..MaxValue.
MaxKey == 5
MaxValue == 2

\* Values that own a resource (a destructor that counts) are objects
\* 1..MaxObjects, each created once.
MaxObjects == 4

Keys == 1..MaxKey
Values == 1..MaxValue
Indices == 0..(CAPACITY - 1)
ObjIds == 1..MaxObjects

None == <<>>
Some(x) == <<x>>

Ok(x) == [tag |-> "Ok", val |-> x]
Err(x) == [tag |-> "Err", val |-> x]
\* A method that is not a Result either returns normally or panics.
Return(x) == [tag |-> "Return", val |-> x]
Panic == [tag |-> "Panic", val |-> <<>>]

\* MaybeUninit slot constructors (Inner::uninit, Inner::new; Entry likewise).
Uninit == <<>>
InnerNew(key, value) == <<key, value>>
EntryNew(value) == <<value>>

\* slice.swap(a, b)
SliceSwap(array, a, b) ==
    [array EXCEPT ![a] = array[b], ![b] = array[a]]

(***************************************************************************)
(* slice[..len].binary_search_by_key as find calls it: the search key of   *)
(* a slot is its first component (the key of a pair, the item of a set).   *)
(***************************************************************************)
\* Ord for keys.  Two key objects can be equal under the order and still be
\* told apart: next to each key k of Keys stands a second object,
\* k + MaxKey, that compares equal to it.  Rank is what Ord::cmp compares.
KeyObjects == Keys \cup {k + MaxKey : k \in Keys}

Rank(k) == IF k > MaxKey THEN k - MaxKey ELSE k

RECURSIVE BinarySearch(_, _, _, _)
BinarySearch(array, left, right, key_object) ==
    IF left >= right
    THEN [ok |-> FALSE, i |-> left]
    ELSE LET mid == left + ((right - left) \div 2)
             k == Rank(array[mid][1])
             key == Rank(key_object)
         IN IF k < key THEN BinarySearch(array, mid + 1, right, key_object)
            ELSE IF k > key THEN BinarySearch(array, left, mid, key_object)
            ELSE [ok |-> TRUE, i |-> mid]

(***************************************************************************)
(* ArrayMap                                                                *)
(***************************************************************************)
\* ArrayMap::default / new: a zeroed array and len 0.
ArrayMapDefault ==
    [array |-> [i \in Indices |-> Uninit], len |-> 0]

\* Mutant of find: an absent key is always placed after the last element.
find_appends(m, key) ==
    LET f == BinarySearch(m.array, 0, m.len, key)
    IN IF f.ok THEN f ELSE [ok |-> FALSE, i |-> m.len]

find(m, key) == BinarySearch(m.array, 0, m.len, key)

contains_key(m, key) == find(m, key).ok

\* Mutant of get: hands out the first component of the pair, not the second.
get_key(m, key) ==
    LET f == find(m, key)
    IN IF f.ok THEN Some(m.array[f.i][1]) ELSE None

get(m, key) ==
    LET f == find(m, key)
    IN IF f.ok THEN Some(m.array[f.i][2]) ELSE None

\* get_mut followed by the caller's write through the reference it hands out:
\* if let Some(x) = map.get_mut(&key) { *x = value }
get_mut(m, key, value) ==
    LET f == find(m, key)
    IN IF f.ok
       THEN [map |-> [m EXCEPT !.array[f.i] = <<m.array[f.i][1], value>>],
             res |-> Return(Some(m.array[f.i][2]))]
       ELSE [map |-> m, res |-> Return(None)]

\* for j in ((i + 1)..=len).rev() { slice.swap(j - 1, j) }, entered at j = len
RECURSIVE ShiftRight(_, _, _)
ShiftRight(array, i, j) ==
    IF j < i + 1 THEN array
    ELSE ShiftRight(SliceSwap(array, j - 1, j), i, j - 1)

\* for j in (i + 1)..len { slice.swap(j - 1, j) }, entered at j = i + 1
RECURSIVE ShiftLeft(_, _, _)
ShiftLeft(array, j, len) ==
    IF j >= len THEN array
    ELSE ShiftLeft(SliceSwap(array, j - 1, j), j + 1, len)

\* Mutant of try_insert_index: a present key keeps its old value.
try_insert_index_keeps_old(m, key, value, index) ==
    IF m.len = CAPACITY
    THEN [map |-> m, res |-> Err(<<key, value>>)]
    ELSE LET i == IF index # None THEN [ok |-> FALSE, i |-> index[1]]
                  ELSE find(m, key)
         IN IF i.ok
            THEN [map |-> m, res |-> Ok(Some(m.array[i.i][2]))]
            ELSE LET shifted == ShiftRight(m.array, i.i, m.len)
                 IN [map |-> [array |-> [shifted EXCEPT ![i.i] = InnerNew(key, value)],
                              len |-> m.len + 1],
                     res |-> Ok(None)]

\* Mutant of try_insert_index: the capacity test is off by one.
try_insert_index_early_full(m, key, value, index) ==
    IF m.len + 1 >= CAPACITY
    THEN [map |-> m, res |-> Err(<<key, value>>)]
    ELSE LET i == IF index # None THEN [ok |-> FALSE, i |-> index[1]]
                  ELSE find(m, key)
         IN IF i.ok
            THEN [map |-> [m EXCEPT !.array[i.i] = InnerNew(key, value)],
                  res |-> Ok(Some(m.array[i.i][2]))]
            ELSE LET shifted == ShiftRight(m.array, i.i, m.len)
                 IN [map |-> [array |-> [shifted EXCEPT ![i.i] = InnerNew(key, value)],
                              len |-> m.len + 1],
                     res |-> Ok(None)]

\* Mutant of try_insert_index: the slot is written before the capacity test.
try_insert_index_writes_first(m, key, value, index) ==
    LET i == IF index # None THEN [ok |-> FALSE, i |-> index[1]]
             ELSE find(m, key)
        at == IF i.i < CAPACITY THEN i.i ELSE CAPACITY - 1
    IN IF m.len = CAPACITY
       THEN [map |-> [m EXCEPT !.array[at] = InnerNew(key, value)],
             res |-> Err(<<key, value>>)]
       ELSE IF i.ok
            THEN [map |-> [m EXCEPT !.array[i.i] = InnerNew(key, value)],
                  res |-> Ok(Some(m.array[i.i][2]))]
            ELSE LET shifted == ShiftRight(m.array, i.i, m.len)
                 IN [map |-> [array |-> [shifted EXCEPT ![i.i] = InnerNew(key, value)],
                              len |-> m.len + 1],
                     res |-> Ok(None)]

\* Mutant of try_insert_index: a present key keeps its key object, only the
\* value is replaced.
try_insert_index_keeps_key(m, key, value, index) ==
    IF m.len = CAPACITY
    THEN [map |-> m, res |-> Err(<<key, value>>)]
    ELSE LET i == IF index # None THEN [ok |-> FALSE, i |-> index[1]]
                  ELSE find(m, key)
         IN IF i.ok
            THEN [map |-> [m EXCEPT !.array[i.i] = <<m.array[i.i][1], value>>],
                  res |-> Ok(Some(m.array[i.i][2]))]
            ELSE LET shifted == ShiftRight(m.array, i.i, m.len)
                 IN [map |-> [array |-> [shifted EXCEPT ![i.i] = InnerNew(key, value)],
                              len |-> m.len + 1],
                     res |-> Ok(None)]

\* Mutant of try_insert_index: the key is looked up before the capacity
\* test, so that a full map still takes a new value for a present key.
try_insert_index_finds_first(m, key, value, index) ==
    LET i == IF index # None THEN [ok |-> FALSE, i |-> index[1]]
             ELSE find(m, key)
    IN IF i.ok
       THEN [map |-> [m EXCEPT !.array[i.i] = InnerNew(key, value)],
             res |-> Ok(Some(m.array[i.i][2]))]
       ELSE IF m.len = CAPACITY
            THEN [map |-> m, res |-> Err(<<key, value>>)]
            ELSE LET shifted == ShiftRight(m.array, i.i, m.len)
                 IN [map |-> [array |-> [shifted EXCEPT ![i.i] = InnerNew(key, value)],
                              len |-> m.len + 1],
                     res |-> Ok(None)]

\* index is Option<usize>: the precomputed insertion point of a VacantEntry.
try_insert_index(m, key, value, index) ==
    IF m.len = CAPACITY
    THEN [map |-> m, res |-> Err(<<key, value>>)]
    ELSE LET i == IF index # None THEN [ok |-> FALSE, i |-> index[1]]
                  ELSE find(m, key)
         IN IF i.ok
            THEN [map |-> [m EXCEPT !.array[i.i] = InnerNew(key, value)],
                  res |-> Ok(Some(m.array[i.i][2]))]
            ELSE LET shifted == ShiftRight(m.array, i.i, m.len)
                 IN [map |-> [array |-> [shifted EXCEPT ![i.i] = InnerNew(key, value)],
                              len |-> m.len + 1],
                     res |-> Ok(None)]

try_insert(m, key, value) == try_insert_index(m, key, value, None)

insert(m, key, value) ==
    LET r == try_insert(m, key, value)
    IN IF r.res.tag = "Err"
       THEN [map |-> r.map, res |-> Panic]
       ELSE [map |-> r.map, res |-> Return(r.res.val)]

\* Mutant of remove_index: the gap is filled with the last element
\* (a swap_remove), not closed by shifting.
remove_index_swaps_last(m, i) ==
    LET taken == [m.array EXCEPT ![i] = Uninit]
    IN [map |-> [array |-> SliceSwap(taken, i, m.len - 1), len |-> m.len - 1],
        res |-> m.array[i]]

\* Mutant of remove_index: the emptied slot is left where it is.
remove_index_leaves_gap(m, i) ==
    [map |-> [array |-> [m.array EXCEPT ![i] = Uninit], len |-> m.len - 1],
     res |-> m.array[i]]

\* returns the (key, value) pair moved out of slot i
remove_index(m, i) ==
    LET taken == [m.array EXCEPT ![i] = Uninit]
    IN [map |-> [array |-> ShiftLeft(taken, i + 1, m.len), len |-> m.len - 1],
        res |-> m.array[i]]

remove(m, key) ==
    LET f == find(m, key)
    IN IF f.ok
       THEN LET r == remove_index(m, f.i)
            IN [map |-> r.map, res |-> Return(Some(r.res[2]))]
       ELSE [map |-> m, res |-> Return(None)]

\* Mutant of clear: the map is left as it is.
clear_keeps_entries(m) == m

\* ArrayMap::clear: *self = Self::new()
clear(m) == ArrayMapDefault

\* Borrowing iteration: the slots [0, len) in order.
iter(m) == [n \in 1..m.len |-> m.array[n - 1]]

\* Consuming iteration: the whole backing array as a Vec, one item per slot.
into_iter(m) == [n \in 1..CAPACITY |-> m.array[n - 1]]

\* What into_iter leaves in self: the array replaced by a zeroed one, len as
\* it was.  self goes out of scope at the end of into_iter and is dropped.
into_iter_residue(m) == [array |-> [i \in Indices |-> Uninit], len |-> m.len]

\* IntoIter::next: entry.assume_init().  Reading a slot that was never
\* written is undefined; it yields whatever bytes the slot holds (garbage).
IntoIter_next(slot, garbage) == IF slot = Uninit THEN garbage ELSE slot

\* Mutant of drop: the destructor loop runs over the whole array.
drop_whole_array(m) == [n \in 1..CAPACITY |-> m.array[n - 1]]

\* Drop for ArrayMap: the slots drop_in_place is run on, 0..len in order.
drop(m) == [n \in 1..m.len |-> m.array[n - 1]]

\* Mutant of index: an absent key is answered with the key.
index_answers_absent(m, key) ==
    LET g == get(m, key)
    IN IF g = None THEN Return(key) ELSE Return(g[1])

\* Index for ArrayMap: self.get(key).unwrap_or_else(|| panic!(..))
index(m, key) ==
    LET g == get(m, key)
    IN IF g = None THEN Panic ELSE Return(g[1])

\* iter.take(n)
Take(items, n) == SubSeq(items, 1, IF Len(items) < n THEN Len(items) ELSE n)

\* for (key, value) in items[n..] { map.insert(key, value); }
RECURSIVE insert_all(_, _, _)
insert_all(m, items, n) ==
    IF n > Len(items) THEN [map |-> m, res |-> Return(None)]
    ELSE LET r == insert(m, items[n][1], items[n][2])
         IN IF r.res = Panic THEN [map |-> r.map, res |-> Panic]
            ELSE insert_all(r.map, items, n + 1)

\* Mutant of from_iter: the iterator is not cut at CAPACITY items.
from_iter_no_take(items) == insert_all(ArrayMapDefault, items, 1)

\* FromIterator for ArrayMap
from_iter(items) == insert_all(ArrayMapDefault, Take(items, CAPACITY), 1)

\* The deserializer's "invalid length" error, with the length it reports.
invalid_length(n) == Err(<<"invalid_length", n>>)

\* Deserialize for ArrayMap, visit_map: entries[n..] go through try_insert.
RECURSIVE visit_map_from(_, _, _)
visit_map_from(array_map, entries, n) ==
    IF n > Len(entries) THEN Ok(array_map)
    ELSE LET r == try_insert(array_map, entries[n][1], entries[n][2])
         IN IF r.res.tag = "Err" THEN invalid_length(CAPACITY + 1)
            ELSE visit_map_from(r.map, entries, n + 1)

visit_map(entries) == visit_map_from(ArrayMapDefault, entries, 1)

(***************************************************************************)
(* Entry view of ArrayMap.  An entry borrows the map mutably, so entry()   *)
(* and the method that consumes the entry form one step.                   *)
(***************************************************************************)
entry(m, key) ==
    LET f == find(m, key)
    IN [occupied |-> f.ok, index |-> f.i, key |-> key]

\* OccupiedEntry::into_mut: the reference is modelled by the value it points to.
into_mut(m, e) == m.array[e.index][2]

VacantEntry_insert(m, e, value) ==
    LET r == try_insert_index(m, e.key, value, Some(e.index))
    IN IF r.res.tag = "Err"
       THEN [map |-> r.map, res |-> Panic]
       ELSE [map |-> r.map, res |-> Return(r.map.array[e.index][2])]

VacantEntry_try_insert(m, e, value) ==
    LET r == try_insert_index(m, e.key, value, Some(e.index))
    IN IF r.res.tag = "Err"
       THEN r
       ELSE [map |-> r.map, res |-> Ok(r.map.array[e.index][2])]

\* Mutant of or_insert: an occupied entry is overwritten with the default.
or_insert_overwrites(m, e, default) ==
    IF e.occupied
    THEN [map |-> [m EXCEPT !.array[e.index] = <<m.array[e.index][1], default>>],
          res |-> Return(default)]
    ELSE VacantEntry_insert(m, e, default)

or_insert(m, e, default) ==
    IF e.occupied
    THEN [map |-> m, res |-> Return(into_mut(m, e))]
    ELSE VacantEntry_insert(m, e, default)

\* Mutant of or_try_insert: a full map rejects the call before the entry is
\* looked at.
or_try_insert_full_first(m, e, default) ==
    IF m.len = CAPACITY
    THEN [map |-> m, res |-> Err(<<e.key, default>>)]
    ELSE IF e.occupied
         THEN [map |-> m, res |-> Ok(into_mut(m, e))]
         ELSE VacantEntry_try_insert(m, e, default)

or_try_insert(m, e, default) ==
    IF e.occupied
    THEN [map |-> m, res |-> Ok(into_mut(m, e))]
    ELSE VacantEntry_try_insert(m, e, default)

\* The closures handed to and_modify: |v| *v += 1 (wrapping inside Values)
\* and |v| *v = c for each value c.
Modifiers ==
    {[v \in Values |-> (v % MaxValue) + 1]} \cup {[v \in Values |-> c] : c \in Values}

\* Mutant of and_modify: the closure is applied to the value twice.
and_modify_twice(m, e, f) ==
    IF e.occupied
    THEN [map |-> [m EXCEPT !.array[e.index] =
                       <<m.array[e.index][1], f[f[m.array[e.index][2]]]>>],
          entry |-> e]
    ELSE [map |-> m, entry |-> e]

\* Entry::and_modify: f(entry.get_mut()) on an occupied entry; returns self.
and_modify(m, e, f) ==
    IF e.occupied
    THEN [map |-> [m EXCEPT !.array[e.index] =
                       <<m.array[e.index][1], f[m.array[e.index][2]]>>],
          entry |-> e]
    ELSE [map |-> m, entry |-> e]

\* OccupiedEntry::insert: replace(self.get_mut(), value)
OccupiedEntry_insert(m, e, value) ==
    [map |-> [m EXCEPT !.array[e.index] = <<m.array[e.index][1], value>>],
     res |-> Return(m.array[e.index][2])]

\* OccupiedEntry::remove: self.remove_entry().1
OccupiedEntry_remove(m, e) ==
    LET r == remove_index(m, e.index)
    IN [map |-> r.map, res |-> Return(r.res[2])]

(***************************************************************************)
(* ArraySet                                                                *)
(***************************************************************************)
ArraySetDefault ==
    [array |-> [i \in Indices |-> Uninit], len |-> 0]

set_find(s, value) == BinarySearch(s.array, 0, s.len, value)

set_contains(s, value) == set_find(s, value).ok

set_get(s, value) ==
    LET f == set_find(s, value)
    IN IF f.ok THEN Some(s.array[f.i][1]) ELSE None

set_try_insert(s, value) ==
    IF s.len = CAPACITY
    THEN [set |-> s, res |-> Err(value)]
    ELSE LET f == set_find(s, value)
         IN IF f.ok
            THEN [set |-> s, res |-> Ok(FALSE)]
            ELSE LET shifted == ShiftRight(s.array, f.i, s.len)
                 IN [set |-> [array |-> [shifted EXCEPT ![f.i] = EntryNew(value)],
                              len |-> s.len + 1],
                     res |-> Ok(TRUE)]

set_insert(s, value) ==
    LET r == set_try_insert(s, value)
    IN IF r.res.tag = "Err"
       THEN [set |-> r.set, res |-> Panic]
       ELSE [set |-> r.set, res |-> Return(r.res.val)]

set_remove(s, value) ==
    LET f == set_find(s, value)
    IN IF f.ok
       THEN LET taken == [s.array EXCEPT ![f.i] = Uninit]
            IN [set |-> [array |-> ShiftLeft(taken, f.i + 1, s.len),
                         len |-> s.len - 1],
                res |-> Return(TRUE)]
       ELSE [set |-> s, res |-> Return(FALSE)]

set_clear(s) == ArraySetDefault

set_iter(s) == [n \in 1..s.len |-> s.array[n - 1]]

set_into_iter(s) == [n \in 1..CAPACITY |-> s.array[n - 1]]

set_into_iter_residue(s) == [array |-> [i \in Indices |-> Uninit], len |-> s.len]

\* Drop for ArraySet
set_drop(s) == [n \in 1..s.len |-> s.array[n - 1]]

(***************************************************************************)
(* The slots a call dereferences (as_ptr().as_ref(), assume_init, swap).   *)
(* c is an ArrayMap or an ArraySet: both keep `array` and `len`.           *)
(***************************************************************************)
\* The slots binary_search_by_key hands to find's key closure.  A slot that
\* was never written has no key to compare: the search is cut there.
RECURSIVE Probes(_, _, _, _)
Probes(array, left, right, key) ==
    IF left >= right THEN {}
    ELSE LET mid == left + ((right - left) \div 2)
         IN IF array[mid] = Uninit THEN {mid}
            ELSE IF Rank(array[mid][1]) < Rank(key)
                 THEN {mid} \cup Probes(array, mid + 1, right, key)
            ELSE IF Rank(array[mid][1]) > Rank(key)
                 THEN {mid} \cup Probes(array, left, mid, key)
            ELSE {mid}

\* Mutant of find_reads: the slice is not cut at len.
find_reads_whole_array(c, key) == Probes(c.array, 0, CAPACITY, key)

\* find: as_slice()[..self.len].binary_search_by_key(..)
find_reads(c, key) == Probes(c.array, 0, c.len, key)

\* get, get_mut: find, then slot i on Ok(i)
get_reads(c, key) ==
    LET f == BinarySearch(c.array, 0, c.len, key)
    IN find_reads(c, key) \cup (IF f.ok THEN {f.i} ELSE {})

\* remove: find, then slot i is moved out and slots i + 1 .. len - 1 are
\* swapped down
remove_reads(c, key) ==
    LET f == BinarySearch(c.array, 0, c.len, key)
    IN find_reads(c, key) \cup (IF f.ok THEN f.i..(c.len - 1) ELSE {})

\* iter: as_slice()[..self.len].iter()
iter_reads(c) == {n - 1 : n \in DOMAIN iter(c)}

\* clear: *self = Self::new() drops the old self
clear_reads(c) == {n - 1 : n \in DOMAIN drop(c)}

is_empty(c) == c.len = 0

RECURSIVE set_insert_all(_, _, _)
set_insert_all(s, items, n) ==
    IF n > Len(items) THEN [set |-> s, res |-> Return(None)]
    ELSE LET r == set_insert(s, items[n])
         IN IF r.res = Panic THEN [set |-> r.set, res |-> Panic]
            ELSE set_insert_all(r.set, items, n + 1)

\* FromIterator for ArraySet
set_from_iter(items) == set_insert_all(ArraySetDefault, Take(items, CAPACITY), 1)

\* Deserialize for ArraySet, visit_seq: items go through insert.
visit_seq(items) ==
    LET r == set_insert_all(ArraySetDefault, items, 1)
    IN IF r.res = Panic THEN Panic ELSE Ok(r.set)

(***************************************************************************)
(* std BTreeMap / BTreeSet, as far as TinyMap / TinySet use them.          *)
(***************************************************************************)
BTreeMapNew == [k \in Keys |-> None]

btree_insert(b, key, value) ==
    [map |-> [b EXCEPT ![key] = Some(value)], res |-> b[key]]

btree_get(b, key) == b[key]

btree_contains_key(b, key) == b[key] # None

btree_remove(b, key) ==
    [map |-> [b EXCEPT ![key] = None], res |-> b[key]]

\* BTreeMap::get_mut followed by the caller's write through the reference.
btree_get_mut(b, key, value) ==
    [map |-> IF b[key] # None THEN [b EXCEPT ![key] = Some(value)] ELSE b,
     res |-> b[key]]

\* BTreeMap::entry(key).or_insert(default): the value the reference points to.
btree_or_insert(b, key, default) ==
    IF b[key] # None
    THEN [map |-> b, res |-> b[key][1]]
    ELSE [map |-> [b EXCEPT ![key] = Some(default)], res |-> default]

btree_len(b) == Cardinality({k \in Keys : b[k] # None})

\* In-order iteration: the pairs of keys lo..MaxKey, ascending.
RECURSIVE btree_iter_from(_, _)
btree_iter_from(b, lo) ==
    IF lo > MaxKey THEN <<>>
    ELSE (IF b[lo] # None THEN <<(<<lo, b[lo][1]>>)>> ELSE <<>>)
         \o btree_iter_from(b, lo + 1)

btree_iter(b) == btree_iter_from(b, 1)

BTreeSetNew == {}

RECURSIVE btreeset_iter_from(_, _)
btreeset_iter_from(b, lo) ==
    IF lo > MaxKey THEN <<>>
    ELSE (IF lo \in b THEN <<(<<lo>>)>> ELSE <<>>) \o btreeset_iter_from(b, lo + 1)

btreeset_iter(b) == btreeset_iter_from(b, 1)

(***************************************************************************)
(* TinyMap: [tag |-> "Stack" | "Heap", stack |-> ArrayMap, heap |-> BTree] *)
(* Only the field named by tag is live; the other holds its default.       *)
(***************************************************************************)
TinyMapDefault ==
    [tag |-> "Stack", stack |-> ArrayMapDefault, heap |-> BTreeMapNew]

\* Mutant of drain_into_btree: the first drained item is skipped.
RECURSIVE drain_into_btree_skips(_, _, _)
drain_into_btree_skips(b, items, n) ==
    IF n + 1 > Len(items) THEN b
    ELSE drain_into_btree_skips(
             btree_insert(b, items[n + 1][1], items[n + 1][2]).map, items, n + 1)

\* for (k, v) in replacement_map { btree_map.insert(k, v); }, from item n on
RECURSIVE drain_into_btree(_, _, _)
drain_into_btree(b, items, n) ==
    IF n > Len(items) THEN b
    ELSE drain_into_btree(btree_insert(b, items[n][1], items[n][2]).map, items, n + 1)

\* Mutant of tiny_insert: promotion moves the stack entries but forgets the
\* pair that triggered it.
tiny_insert_forgets(t, key, value) ==
    IF t.tag = "Stack"
    THEN LET r == try_insert(t.stack, key, value)
         IN IF r.res.tag = "Ok"
            THEN [map |-> [t EXCEPT !.stack = r.map], res |-> Return(r.res.val)]
            ELSE [map |-> [tag |-> "Heap", stack |-> ArrayMapDefault,
                           heap |-> drain_into_btree(BTreeMapNew, into_iter(r.map), 1)],
                  res |-> Return(None)]
    ELSE LET ins == btree_insert(t.heap, key, value)
         IN [map |-> [t EXCEPT !.heap = ins.map], res |-> Return(ins.res)]

\* Mutant of tiny_insert: promotion copies the entries to the heap and
\* leaves them in the stack map as well.
tiny_insert_keeps_stack(t, key, value) ==
    IF t.tag = "Stack"
    THEN LET r == try_insert(t.stack, key, value)
         IN IF r.res.tag = "Ok"
            THEN [map |-> [t EXCEPT !.stack = r.map], res |-> Return(r.res.val)]
            ELSE LET btree_map == drain_into_btree(BTreeMapNew, into_iter(r.map), 1)
                     ins == btree_insert(btree_map, r.res.val[1], r.res.val[2])
                 IN [map |-> [tag |-> "Heap", stack |-> r.map, heap |-> ins.map],
                     res |-> Return(ins.res)]
    ELSE LET ins == btree_insert(t.heap, key, value)
         IN [map |-> [t EXCEPT !.heap = ins.map], res |-> Return(ins.res)]

tiny_insert(t, key, value) ==
    IF t.tag = "Stack"
    THEN LET r == try_insert(t.stack, key, value)
         IN IF r.res.tag = "Ok"
            THEN [map |-> [t EXCEPT !.stack = r.map], res |-> Return(r.res.val)]
            ELSE LET replacement_map == r.map
                     btree_map == drain_into_btree(BTreeMapNew,
                                                   into_iter(replacement_map), 1)
                     ins == btree_insert(btree_map, r.res.val[1], r.res.val[2])
                 IN [map |-> [tag |-> "Heap", stack |-> ArrayMapDefault,
                              heap |-> ins.map],
                     res |-> Return(ins.res)]
    ELSE LET ins == btree_insert(t.heap, key, value)
         IN [map |-> [t EXCEPT !.heap = ins.map], res |-> Return(ins.res)]

tiny_get(t, key) ==
    IF t.tag = "Stack" THEN get(t.stack, key) ELSE btree_get(t.heap, key)

tiny_contains_key(t, key) ==
    IF t.tag = "Stack" THEN contains_key(t.stack, key)
    ELSE btree_contains_key(t.heap, key)

tiny_len(t) ==
    IF t.tag = "Stack" THEN t.stack.len ELSE btree_len(t.heap)

\* Mutant of tiny_remove: a Heap map that fits the array again after the
\* removal is moved back to the stack.
tiny_remove_demotes(t, key) ==
    IF t.tag = "Stack"
    THEN LET r == remove(t.stack, key)
         IN [map |-> [t EXCEPT !.stack = r.map], res |-> r.res]
    ELSE LET r == btree_remove(t.heap, key)
             items == btree_iter(r.map)
         IN IF Len(items) <= CAPACITY
            THEN [map |-> [tag |-> "Stack",
                           stack |-> [array |-> [i \in Indices |->
                                                   IF i < Len(items)
                                                   THEN items[i + 1] ELSE Uninit],
                                      len |-> Len(items)],
                           heap |-> BTreeMapNew],
                  res |-> Return(r.res)]
            ELSE [map |-> [t EXCEPT !.heap = r.map], res |-> Return(r.res)]

tiny_remove(t, key) ==
    IF t.tag = "Stack"
    THEN LET r == remove(t.stack, key)
         IN [map |-> [t EXCEPT !.stack = r.map], res |-> r.res]
    ELSE LET r == btree_remove(t.heap, key)
         IN [map |-> [t EXCEPT !.heap = r.map], res |-> Return(r.res)]

\* TinyMap::clear: *self = Self::new()
tiny_clear(t) == TinyMapDefault

tiny_get_mut(t, key, value) ==
    IF t.tag = "Stack"
    THEN LET r == get_mut(t.stack, key, value)
         IN [map |-> [t EXCEPT !.stack = r.map], res |-> r.res]
    ELSE LET r == btree_get_mut(t.heap, key, value)
         IN [map |-> [t EXCEPT !.heap = r.map], res |-> Return(r.res)]

\* Mutant of tiny_or_insert: a vacant entry of a full stack map promotes the
\* map the way insert does.
tiny_or_insert_promotes(t, key, default) ==
    IF t.tag = "Stack"
    THEN IF t.stack.len = CAPACITY /\ ~contains_key(t.stack, key)
         THEN [map |-> tiny_insert(t, key, default).map, res |-> Return(default)]
         ELSE LET r == or_insert(t.stack, entry(t.stack, key), default)
              IN [map |-> [t EXCEPT !.stack = r.map], res |-> r.res]
    ELSE LET r == btree_or_insert(t.heap, key, default)
         IN [map |-> [t EXCEPT !.heap = r.map], res |-> Return(r.res)]

\* TinyMap::entry(key).or_insert(default): the entry wraps the entry of
\* whichever representation is live and or_insert dispatches to it.
tiny_or_insert(t, key, default) ==
    IF t.tag = "Stack"
    THEN LET r == or_insert(t.stack, entry(t.stack, key), default)
         IN [map |-> [t EXCEPT !.stack = r.map], res |-> r.res]
    ELSE LET r == btree_or_insert(t.heap, key, default)
         IN [map |-> [t EXCEPT !.heap = r.map], res |-> Return(r.res)]

tiny_iter(t) ==
    IF t.tag = "Stack" THEN iter(t.stack) ELSE btree_iter(t.heap)

RECURSIVE tiny_insert_all(_, _, _)
tiny_insert_all(t, items, n) ==
    IF n > Len(items) THEN t
    ELSE tiny_insert_all(tiny_insert(t, items[n][1], items[n][2]).map, items, n + 1)

\* Mutant of tiny_from_iter: the iterator is not cut at CAPACITY items.
tiny_from_iter_no_take(items) == tiny_insert_all(TinyMapDefault, items, 1)

\* FromIterator for TinyMap
tiny_from_iter(items) == tiny_insert_all(TinyMapDefault, Take(items, CAPACITY), 1)

\* Index for TinyMap: self.get(key).unwrap_or_else(|| panic!(..))
tiny_index(t, key) ==
    LET g == tiny_get(t, key)
    IN IF g = None THEN Panic ELSE Return(g[1])

\* Dropping a TinyMap drops the variant it holds: the ArrayMap through its
\* Drop, the BTreeMap entry by entry.
tiny_drop(t) == IF t.tag = "Stack" THEN drop(t.stack) ELSE btree_iter(t.heap)

(***************************************************************************)
(* TinySet: [tag, stack |-> ArraySet, heap |-> BTreeSet]                   *)
(***************************************************************************)
TinySetDefault ==
    [tag |-> "Stack", stack |-> ArraySetDefault, heap |-> BTreeSetNew]

\* for val in replacement_set.into_iter() { btree_set.insert(val); }
drain_into_btreeset(items) == {items[n][1] : n \in 1..Len(items)}

tinyset_insert(t, value) ==
    IF t.tag = "Stack"
    THEN LET r == set_try_insert(t.stack, value)
         IN IF r.res.tag = "Ok"
            THEN [set |-> [t EXCEPT !.stack = r.set], res |-> Return(r.res.val)]
            ELSE LET replacement_set == r.set
                     btree_set == drain_into_btreeset(set_into_iter(replacement_set))
                 IN [set |-> [tag |-> "Heap", stack |-> ArraySetDefault,
                              heap |-> btree_set \cup {r.res.val}],
                     res |-> Return(r.res.val \notin btree_set)]
    ELSE [set |-> [t EXCEPT !.heap = t.heap \cup {value}],
          res |-> Return(value \notin t.heap)]

tinyset_contains(t, value) ==
    IF t.tag = "Stack" THEN set_contains(t.stack, value) ELSE value \in t.heap

tinyset_get(t, value) ==
    IF t.tag = "Stack" THEN set_get(t.stack, value)
    ELSE IF value \in t.heap THEN Some(value) ELSE None

tinyset_len(t) ==
    IF t.tag = "Stack" THEN t.stack.len ELSE Cardinality(t.heap)

tinyset_remove(t, value) ==
    IF t.tag = "Stack"
    THEN LET r == set_remove(t.stack, value)
         IN [set |-> [t EXCEPT !.stack = r.set], res |-> r.res]
    ELSE [set |-> [t EXCEPT !.heap = t.heap \ {value}],
          res |-> Return(value \in t.heap)]

tinyset_clear(t) == TinySetDefault

tinyset_iter(t) ==
    IF t.tag = "Stack" THEN set_iter(t.stack) ELSE btreeset_iter(t.heap)

RECURSIVE tinyset_insert_all(_, _, _)
tinyset_insert_all(t, items, n) ==
    IF n > Len(items) THEN t
    ELSE tinyset_insert_all(tinyset_insert(t, items[n]).set, items, n + 1)

\* FromIterator for TinySet
tinyset_from_iter(items) ==
    tinyset_insert_all(TinySetDefault, Take(items, CAPACITY), 1)

tinyset_drop(t) ==
    IF t.tag = "Stack" THEN set_drop(t.stack) ELSE btreeset_iter(t.heap)

(***************************************************************************)
(* The reference: a finite map Keys -> Option<value> with no capacity,     *)
(* run next to the map under test.                                         *)
(***************************************************************************)
RefEmpty == [k \in Keys |-> None]
RefInsert(r, key, value) == [r EXCEPT ![key] = Some(value)]
RefRemove(r, key) == [r EXCEPT ![key] = None]
RefLen(r) == Cardinality({k \in Keys : r[k] # None})
RECURSIVE RefIterFrom(_, _)
RefIterFrom(r, lo) ==
    IF lo > MaxKey THEN <<>>
    ELSE IF r[lo] = None THEN RefIterFrom(r, lo + 1)
    ELSE <<(<<lo, r[lo][1]>>)>> \o RefIterFrom(r, lo + 1)
RefIter(r) == RefIterFrom(r, 1)

(***************************************************************************)
(* State                                                                   *)
(*   kind     the container this behaviour exercises                       *)
(*   map      the ArrayMap           set      the ArraySet                 *)
(*   tmap     the TinyMap            tset     the TinySet                  *)
(*   ref      the reference map                                            *)
(*   last     the last call and the shape of what it returned:             *)
(*            [op, tag, out], out being "Some"/"None" for an Option,       *)
(*            "true"/"false" for a bool, "ref" for a reference, "pair" for *)
(*            a rejected pair handed back, "-" for nothing                 *)
(* Ownership of values that have a destructor (the objects):               *)
(*   made     the objects created so far                                   *)
(*   drops    for each object, how many times its destructor has run       *)
(*   wild     how many times a destructor has run on something that is not *)
(*            a live value: an empty, zeroed or moved-out slot             *)
(*   life     "live", "dropped" (the container went out of scope),         *)
(*            "consumed" (moved into a consuming iteration) or "crashed"   *)
(*   yielded  the items a consuming iteration has produced                 *)
(***************************************************************************)
VARIABLES kind, map, set, tmap, tset, ref, last,
          made, drops, wild, life, yielded,
          input, output

vars == <<kind, map, set, tmap, tset, ref, last, made, drops, wild, life, yielded,
          input, output>>

\* The sequence handed to a collecting or deserializing call and what the
\* call returned; untouched by the calls on a container.
io == <<input, output>>

\* The ownership bookkeeping, untouched by calls made with plain-data values.
mem == <<made, drops, wild, life, yielded>>

Call(op, tag, out) == [op |-> op, tag |-> tag, out |-> out]

OptionOut(opt) == IF opt = None THEN "None" ELSE "Some"
BoolOut(b) == IF b THEN "true" ELSE "false"

Init ==
    /\ kind \in {"ArrayMap", "ArraySet", "TinyMap", "TinySet"}
    /\ map = ArrayMapDefault
    /\ set = ArraySetDefault
    /\ tmap = TinyMapDefault
    /\ tset = TinySetDefault
    /\ ref = RefEmpty
    /\ last = Call("new", "Return", "-")
    /\ made = {}
    /\ drops = [o \in ObjIds |-> 0]
    /\ wild = 0
    /\ life = "live"
    /\ yielded = <<>>
    /\ input = <<>>
    /\ output = None

(***************************************************************************)
(* ArrayMap calls.  r is what the method computes: the map it leaves and   *)
(* the value it returns.  The reference takes an insertion only when the   *)
(* call reports it done.                                                   *)
(***************************************************************************)
MapCall(op, r, out, newref) ==
    /\ kind = "ArrayMap"
    /\ map' = r.map
    /\ last' = Call(op, r.res.tag, out)
    /\ ref' = newref
    /\ UNCHANGED <<kind, set, tmap, tset, mem, io>>

MapTryInsert(key, value) ==
    LET r == try_insert(map, key, value)
    IN MapCall("try_insert", r,
               IF r.res.tag = "Ok" THEN OptionOut(r.res.val) ELSE "pair",
               IF r.res.tag = "Ok" THEN RefInsert(ref, key, value) ELSE ref)

MapInsert(key, value) ==
    LET r == insert(map, key, value)
    IN MapCall("insert", r,
               IF r.res.tag = "Return" THEN OptionOut(r.res.val) ELSE "-",
               IF r.res.tag = "Return" THEN RefInsert(ref, key, value) ELSE ref)

MapRemove(key) ==
    LET r == remove(map, key)
    IN MapCall("remove", r, OptionOut(r.res.val), RefRemove(ref, key))

MapClear ==
    MapCall("clear", [map |-> clear(map), res |-> Return(None)], "-", RefEmpty)

MapEntryOrInsert(key, default) ==
    LET r == or_insert(map, entry(map, key), default)
    IN MapCall("or_insert", r,
               IF r.res.tag = "Return" THEN "ref" ELSE "-",
               IF r.res.tag = "Return" /\ ref[key] = None
               THEN RefInsert(ref, key, default) ELSE ref)

MapEntryOrTryInsert(key, default) ==
    LET r == or_try_insert(map, entry(map, key), default)
    IN MapCall("or_try_insert", r,
               IF r.res.tag = "Ok" THEN "ref" ELSE "pair",
               IF r.res.tag = "Ok" /\ ref[key] = None
               THEN RefInsert(ref, key, default) ELSE ref)

\* match map.entry(key) { Occupied(e) => e.insert(value), .. }
MapOccupiedInsert(key, value) ==
    /\ kind = "ArrayMap"
    /\ entry(map, key).occupied
    /\ MapCall("occupied_insert",
               OccupiedEntry_insert(map, entry(map, key), value), "ref",
               RefInsert(ref, key, value))

\* match map.entry(key) { Occupied(e) => e.remove(), .. }
MapOccupiedRemove(key) ==
    /\ kind = "ArrayMap"
    /\ entry(map, key).occupied
    /\ MapCall("occupied_remove",
               OccupiedEntry_remove(map, entry(map, key)), "ref",
               RefRemove(ref, key))

\* map.entry(key).and_modify(f).or_insert(default), f being |e| *e += 1
\* (wrapping inside Values).
Increment == [v \in Values |-> (v % MaxValue) + 1]

MapEntryAndModify(key, default) ==
    LET a == and_modify(map, entry(map, key), Increment)
        r == or_insert(a.map, a.entry, default)
    IN MapCall("and_modify", r,
               IF r.res.tag = "Return" THEN "ref" ELSE "-",
               IF r.res.tag = "Return"
               THEN RefInsert(ref, key, r.res.val) ELSE ref)

(***************************************************************************)
(* ArraySet calls                                                          *)
(***************************************************************************)
SetCall(op, r, out) ==
    /\ kind = "ArraySet"
    /\ set' = r.set
    /\ last' = Call(op, r.res.tag, out)
    /\ UNCHANGED <<kind, map, tmap, tset, ref, mem, io>>

SetTryInsert(value) ==
    LET r == set_try_insert(set, value)
    IN SetCall("try_insert", r,
               IF r.res.tag = "Ok" THEN BoolOut(r.res.val) ELSE "pair")

SetInsert(value) ==
    LET r == set_insert(set, value)
    IN SetCall("insert", r,
               IF r.res.tag = "Return" THEN BoolOut(r.res.val) ELSE "-")

SetRemove(value) ==
    LET r == set_remove(set, value)
    IN SetCall("remove", r, BoolOut(r.res.val))

SetClear ==
    SetCall("clear", [set |-> set_clear(set), res |-> Return(None)], "-")

(***************************************************************************)
(* The calls on an ArrayMap / ArraySet that leave it as it is, and get_mut *)
(***************************************************************************)
MapGet(key) ==
    MapCall("get", [map |-> map, res |-> Return(get(map, key))],
            OptionOut(get(map, key)), ref)

MapGetMut(key, value) ==
    LET r == get_mut(map, key, value)
    IN MapCall("get_mut", r, OptionOut(r.res.val),
               IF r.res.val # None THEN RefInsert(ref, key, value) ELSE ref)

MapContainsKey(key) ==
    MapCall("contains_key", [map |-> map, res |-> Return(contains_key(map, key))],
            BoolOut(contains_key(map, key)), ref)

MapLen == MapCall("len", [map |-> map, res |-> Return(map.len)], "-", ref)

MapIsEmpty ==
    MapCall("is_empty", [map |-> map, res |-> Return(is_empty(map))],
            BoolOut(is_empty(map)), ref)

MapIter == MapCall("iter", [map |-> map, res |-> Return(iter(map))], "-", ref)

SetContains(value) ==
    SetCall("contains", [set |-> set, res |-> Return(set_contains(set, value))],
            BoolOut(set_contains(set, value)))

SetGet(value) ==
    SetCall("get", [set |-> set, res |-> Return(set_get(set, value))],
            OptionOut(set_get(set, value)))

SetLen == SetCall("len", [set |-> set, res |-> Return(set.len)], "-")

SetIsEmpty ==
    SetCall("is_empty", [set |-> set, res |-> Return(is_empty(set))],
            BoolOut(is_empty(set)))

SetIter == SetCall("iter", [set |-> set, res |-> Return(set_iter(set))], "-")

(***************************************************************************)
(* TinyMap calls.  The reference takes every call.                         *)
(***************************************************************************)
TinyMapCall(op, r, out, newref) ==
    /\ kind = "TinyMap"
    /\ tmap' = r.map
    /\ last' = Call(op, r.res.tag, out)
    /\ ref' = newref
    /\ UNCHANGED <<kind, map, set, tset, mem, io>>

TinyMapInsert(key, value) ==
    LET r == tiny_insert(tmap, key, value)
    IN TinyMapCall("insert", r, OptionOut(r.res.val), RefInsert(ref, key, value))

TinyMapRemove(key) ==
    LET r == tiny_remove(tmap, key)
    IN TinyMapCall("remove", r, OptionOut(r.res.val), RefRemove(ref, key))

TinyMapClear ==
    TinyMapCall("clear", [map |-> tiny_clear(tmap), res |-> Return(None)], "-",
                RefEmpty)

\* The read-only methods take &self: they return a value and leave the map.
TinyMapGet(key) ==
    TinyMapCall("get", [map |-> tmap, res |-> Return(tiny_get(tmap, key))],
                OptionOut(tiny_get(tmap, key)), ref)

TinyMapContainsKey(key) ==
    TinyMapCall("contains_key",
                [map |-> tmap, res |-> Return(tiny_contains_key(tmap, key))],
                BoolOut(tiny_contains_key(tmap, key)), ref)

TinyMapLen ==
    TinyMapCall("len", [map |-> tmap, res |-> Return(tiny_len(tmap))], "-", ref)

TinyMapIter ==
    TinyMapCall("iter", [map |-> tmap, res |-> Return(tiny_iter(tmap))], "-", ref)

TinyMapGetMut(key, value) ==
    LET r == tiny_get_mut(tmap, key, value)
    IN TinyMapCall("get_mut", r, OptionOut(r.res.val),
                   IF r.res.val # None THEN RefInsert(ref, key, value) ELSE ref)

TinyMapEntryOrInsert(key, default) ==
    LET r == tiny_or_insert(tmap, key, default)
    IN TinyMapCall("or_insert", r,
                   IF r.res.tag = "Return" THEN "ref" ELSE "-",
                   IF r.res.tag = "Return" /\ ref[key] = None
                   THEN RefInsert(ref, key, default) ELSE ref)

(***************************************************************************)
(* TinySet calls                                                           *)
(***************************************************************************)
TinySetCall(op, r, out) ==
    /\ kind = "TinySet"
    /\ tset' = r.set
    /\ last' = Call(op, r.res.tag, out)
    /\ UNCHANGED <<kind, map, set, tmap, ref, mem, io>>

TinySetInsert(value) ==
    LET r == tinyset_insert(tset, value)
    IN TinySetCall("insert", r, BoolOut(r.res.val))

TinySetRemove(value) ==
    LET r == tinyset_remove(tset, value)
    IN TinySetCall("remove", r, BoolOut(r.res.val))

TinySetClear ==
    TinySetCall("clear", [set |-> tinyset_clear(tset), res |-> Return(None)], "-")

TinySetContains(value) ==
    TinySetCall("contains",
                [set |-> tset, res |-> Return(tinyset_contains(tset, value))],
                BoolOut(tinyset_contains(tset, value)))

TinySetGet(value) ==
    TinySetCall("get", [set |-> tset, res |-> Return(tinyset_get(tset, value))],
                OptionOut(tinyset_get(tset, value)))

TinySetLen ==
    TinySetCall("len", [set |-> tset, res |-> Return(tinyset_len(tset))], "-")

TinySetIter ==
    TinySetCall("iter", [set |-> tset, res |-> Return(tinyset_iter(tset))], "-")

\* The calls on the two array containers.
InitFixed ==
    /\ Init
    /\ kind \in {"ArrayMap", "ArraySet"}

NextFixed ==
    \/ \E key \in Keys, value \in Values : MapTryInsert(key, value)
    \/ \E key \in Keys, value \in Values : MapInsert(key, value)
    \/ \E key \in Keys : MapRemove(key)
    \/ MapClear
    \/ \E key \in Keys, value \in Values : MapEntryOrInsert(key, value)
    \/ \E key \in Keys, value \in Values : MapEntryOrTryInsert(key, value)
    \/ \E key \in Keys, value \in Values : MapOccupiedInsert(key, value)
    \/ \E key \in Keys : MapOccupiedRemove(key)
    \/ \E key \in Keys, value \in Values : MapEntryAndModify(key, value)
    \/ \E value \in Keys : SetTryInsert(value)
    \/ \E value \in Keys : SetInsert(value)
    \/ \E value \in Keys : SetRemove(value)
    \/ SetClear

SpecFixed == InitFixed /\ [][NextFixed]_vars

\* The calls on the two promoting containers.
InitPromote ==
    /\ Init
    /\ kind \in {"TinyMap", "TinySet"}

NextPromote ==
    \/ \E key \in Keys, value \in Values : TinyMapInsert(key, value)
    \/ \E key \in Keys : TinyMapRemove(key)
    \/ TinyMapClear
    \/ \E value \in Keys : TinySetInsert(value)
    \/ \E value \in Keys : TinySetRemove(value)
    \/ TinySetClear

SpecPromote == InitPromote /\ [][NextPromote]_vars

\* The calls on the ArrayMap that go through an Entry, with try_insert and
\* remove to fill and empty the map.
InitEntry ==
    /\ Init
    /\ kind = "ArrayMap"

NextEntry ==
    \/ \E key \in Keys, value \in Values : MapTryInsert(key, value)
    \/ \E key \in Keys : MapRemove(key)
    \/ \E key \in Keys, value \in Values : MapEntryOrInsert(key, value)
    \/ \E key \in Keys, value \in Values : MapEntryOrTryInsert(key, value)
    \/ \E key \in Keys, value \in Values : MapOccupiedInsert(key, value)
    \/ \E key \in Keys : MapOccupiedRemove(key)
    \/ \E key \in Keys, value \in Values : MapEntryAndModify(key, value)

SpecEntry == InitEntry /\ [][NextEntry]_vars

\* One container of any of the four kinds.
Next ==
    \/ NextFixed
    \/ NextPromote

Spec == Init /\ [][Next]_vars

(***************************************************************************)
(* Lookups on the two maps: get, remove and map[key], with insert to fill  *)
(* the maps.  A panic of map[key] unwinds and leaves the map usable.       *)
(***************************************************************************)
MapIndex(key) ==
    MapCall("index", [map |-> map, res |-> index(map, key)],
            IF index(map, key) = Panic THEN "-" ELSE "value", ref)

TinyMapIndex(key) ==
    TinyMapCall("index", [map |-> tmap, res |-> tiny_index(tmap, key)],
                IF tiny_index(tmap, key) = Panic THEN "-" ELSE "value", ref)

InitIndex ==
    /\ Init
    /\ kind \in {"ArrayMap", "TinyMap"}

NextIndex ==
    \/ \E key \in Keys, value \in Values : MapInsert(key, value)
    \/ \E key \in Keys : MapRemove(key)
    \/ \E key \in Keys : MapGet(key)
    \/ \E key \in Keys : MapIndex(key)
    \/ \E key \in Keys, value \in Values : TinyMapInsert(key, value)
    \/ \E key \in Keys : TinyMapRemove(key)
    \/ \E key \in Keys : TinyMapGet(key)
    \/ \E key \in Keys : TinyMapIndex(key)

SpecIndex == InitIndex /\ [][NextIndex]_vars

(***************************************************************************)
(* An ArrayMap whose callers pass key objects: try_insert with either      *)
(* object of a key, remove by key.  ref is indexed by the rank of the key. *)
(***************************************************************************)
MapTryInsertObject(key, value) ==
    LET r == try_insert(map, key, value)
    IN MapCall("try_insert", r,
               IF r.res.tag = "Ok" THEN OptionOut(r.res.val) ELSE "pair",
               IF r.res.tag = "Ok" THEN RefInsert(ref, Rank(key), value) ELSE ref)

InitKey ==
    /\ Init
    /\ kind = "ArrayMap"

NextKey ==
    \/ \E key \in KeyObjects, value \in Values : MapTryInsertObject(key, value)
    \/ \E key \in Keys : MapRemove(key)

SpecKey == InitKey /\ [][NextKey]_vars

(***************************************************************************)
(* Extend for ArrayMap.  The call map.extend(iter) is applied to a map     *)
(* that extend itself built from new(), every value being MaxValue, and to *)
(* an iterator of at most MaxItems keys, kept in input, whose item n       *)
(* carries the value ItemValue(n).                                         *)
(***************************************************************************)
MaxItems == 3

ItemValue(n) == ((n - 1) % MaxValue) + 1

Iterators == UNION {[1..l -> Keys] : l \in 0..MaxItems}

Items(keys) == [n \in 1..Len(keys) |-> <<keys[n], ItemValue(n)>>]

\* for (k, v) in iter { if self.try_insert(k, v).is_err() { break; } },
\* entered at item n.  extend returns (); res.val tells how the loop ended.
RECURSIVE extend_from(_, _, _)
extend_from(m, items, n) ==
    IF n > Len(items) THEN [map |-> m, res |-> Return("Done")]
    ELSE LET r == try_insert(m, items[n][1], items[n][2])
         IN IF r.res.tag = "Panic" THEN [map |-> r.map, res |-> Panic]
            ELSE IF r.res.tag = "Err" THEN [map |-> r.map, res |-> Return("Break")]
            ELSE extend_from(r.map, items, n + 1)

extend(m, items) == extend_from(m, items, 1)

\* The maps extend builds from new() out of up to CAPACITY ascending keys.
Built ==
    {extend(ArrayMapDefault, [n \in 1..Len(ks) |-> <<ks[n], MaxValue>>]).map :
        ks \in {q \in UNION {[1..l -> Keys] : l \in 0..CAPACITY} :
                   \A n \in 1..(Len(q) - 1) : q[n] < q[n + 1]}}

\* map.extend(iter) with the items of input.  The reference after the call
\* holds what the map answers.
MapExtend ==
    LET r == extend(map, Items(input))
    IN /\ kind = "ArrayMap"
       /\ map' = r.map
       /\ last' = Call("extend", r.res.tag,
                       IF r.res.tag = "Return" THEN r.res.val ELSE "-")
       /\ ref' = [k \in Keys |-> get(r.map, k)]
       /\ UNCHANGED <<kind, set, tmap, tset, mem, io>>

InitExtend ==
    /\ kind = "ArrayMap"
    /\ map \in Built
    /\ set = ArraySetDefault
    /\ tmap = TinyMapDefault
    /\ tset = TinySetDefault
    /\ ref = [k \in Keys |-> get(map, k)]
    /\ last = Call("extend", "Return", "Done")
    /\ made = {}
    /\ drops = [o \in ObjIds |-> 0]
    /\ wild = 0
    /\ life = "live"
    /\ yielded = <<>>
    /\ input \in Iterators
    /\ output = None

NextExtend == MapExtend

SpecExtend == InitExtend /\ [][NextExtend]_vars

(***************************************************************************)
(* PartialEq for TinyMap / TinySet.  The container compared is tmap / tset *)
(* and the one it is compared with is kept in output.  Both are made by    *)
(* From: from a BTreeMap (Heap) or, where the entries fit, from an         *)
(* ArrayMap collected from them (Stack).                                   *)
(***************************************************************************)
\* Mutant of iter_eq: the comparison ends with the shorter iterator, as
\* a.zip(b).all(|(x, y)| x == y) does.
RECURSIVE iter_eq_zip(_, _, _)
iter_eq_zip(a, b, n) ==
    IF n > Len(a) \/ n > Len(b) THEN TRUE
    ELSE IF a[n] # b[n] THEN FALSE
    ELSE iter_eq_zip(a, b, n + 1)

\* Iterator::eq, entered at item n: both iterators are advanced together;
\* they are equal if they end together and no pair of items differed.
RECURSIVE iter_eq(_, _, _)
iter_eq(a, b, n) ==
    IF n > Len(a) THEN n > Len(b)
    ELSE IF n > Len(b) THEN FALSE
    ELSE IF a[n] # b[n] THEN FALSE
    ELSE iter_eq(a, b, n + 1)

\* PartialEq for TinyMap: self.iter().eq(other.iter())
tiny_eq(a, b) == iter_eq(tiny_iter(a), tiny_iter(b), 1)

\* PartialEq for TinySet
tinyset_eq(a, b) == iter_eq(tinyset_iter(a), tinyset_iter(b), 1)

\* From<ArrayMap> / From<BTreeMap> for TinyMap
tiny_from_array_map(m) == [tag |-> "Stack", stack |-> m, heap |-> BTreeMapNew]

tiny_from_btree(b) == [tag |-> "Heap", stack |-> ArrayMapDefault, heap |-> b]

\* From<ArraySet> / From<BTreeSet> for TinySet
tinyset_from_array_set(s) == [tag |-> "Stack", stack |-> s, heap |-> BTreeSetNew]

tinyset_from_btreeset(b) == [tag |-> "Heap", stack |-> ArraySetDefault, heap |-> b]

\* What a map can hold, and the TinyMaps that hold exactly b.
MapContents == [Keys -> {None} \cup {Some(v) : v \in Values}]

TinyMapsOf(b) ==
    {tiny_from_btree(b)}
        \cup (IF btree_len(b) <= CAPACITY
              THEN {tiny_from_array_map(from_iter(btree_iter(b)).map)}
              ELSE {})

\* The contents that differ from b at no more than one key.
MapsNear(b) ==
    {[b EXCEPT ![k] = x] : k \in Keys, x \in {None} \cup {Some(v) : v \in Values}}

TinySetsOf(b) ==
    {tinyset_from_btreeset(b)}
        \cup (IF Cardinality(b) <= CAPACITY
              THEN {tinyset_from_array_set(
                        set_from_iter([n \in 1..Cardinality(b) |->
                                          btreeset_iter(b)[n][1]]).set)}
              ELSE {})

SetsNear(b) == {b \cup {k} : k \in Keys} \cup {b \ {k} : k \in Keys}

\* tmap == other
TinyMapEq ==
    /\ kind = "TinyMap"
    /\ last' = Call("eq", "Return", BoolOut(tiny_eq(tmap, output)))
    /\ UNCHANGED <<kind, map, set, tmap, tset, ref, mem, io>>

\* tset == other
TinySetEq ==
    /\ kind = "TinySet"
    /\ last' = Call("eq", "Return", BoolOut(tinyset_eq(tset, output)))
    /\ UNCHANGED <<kind, map, set, tmap, tset, ref, mem, io>>

InitEq ==
    /\ kind \in {"TinyMap", "TinySet"}
    /\ map = ArrayMapDefault
    /\ set = ArraySetDefault
    /\ IF kind = "TinyMap"
       THEN /\ tset = TinySetDefault
            /\ \E b \in MapContents :
                   /\ tmap \in TinyMapsOf(b)
                   /\ output \in UNION {TinyMapsOf(d) : d \in MapsNear(b)}
       ELSE /\ tmap = TinyMapDefault
            /\ \E b \in SUBSET Keys :
                   /\ tset \in TinySetsOf(b)
                   /\ output \in UNION {TinySetsOf(d) : d \in SetsNear(b)}
    /\ ref = RefEmpty
    /\ last = Call("from", "Return", "-")
    /\ made = {}
    /\ drops = [o \in ObjIds |-> 0]
    /\ wild = 0
    /\ life = "live"
    /\ yielded = <<>>
    /\ input = <<>>

NextEq ==
    \/ TinyMapEq
    \/ TinySetEq

SpecEq == InitEq /\ [][NextEq]_vars

(***************************************************************************)
(* lib.rs: the ArrayMap over an array of Default pairs.  Every slot always *)
(* holds a pair; a slot not in use holds (K::default(), V::default()),     *)
(* here (0, 0), which no call passes as a key.  The map is kept in the     *)
(* variable map, with kind = "LibArrayMap".                                *)
(***************************************************************************)
LibDefault == <<0, 0>>

\* Array::CAPACITY of the array type the map of lib.rs is built on.
LibCapacity == 2

LibIndices == 0..(LibCapacity - 1)

\* ArrayMap::new: Self::default()
lib_new == [array |-> [i \in LibIndices |-> LibDefault], len |-> 0]

\* find: as_slice()[0..self.len].binary_search_by_key(..), as the set of
\* results it can give.  Slicing past the array panics.  On a slice that is
\* not sorted the result of binary_search is unspecified: Ok(i) for a slot
\* that compares equal, or Err(i) for any insertion point.
lib_find(m, key) ==
    IF m.len > LibCapacity THEN {Panic}
    ELSE IF \A n \in 0..(m.len - 2) : m.array[n][1] < m.array[n + 1][1]
    THEN {BinarySearch(m.array, 0, m.len, key)}
    ELSE {[ok |-> TRUE, i |-> i] : i \in {i \in 0..(m.len - 1) : m.array[i][1] = key}}
         \cup {[ok |-> FALSE, i |-> i] : i \in 0..m.len}

lib_len(m) == m.len

\* get, given find's result f
lib_get(m, f) ==
    IF f = Panic THEN Panic
    ELSE IF f.ok THEN Return(Some(m.array[f.i][2])) ELSE Return(None)

\* insert, given find's result f.  Err(i): the swaps run for
\* j = len - 1 down to i + 1, then the new pair goes to slice[i], which
\* panics past the end of the array, and len grows.
lib_insert(m, key, value, f) ==
    IF f = Panic THEN [map |-> m, res |-> Panic]
    ELSE IF f.ok
    THEN [map |-> [m EXCEPT !.array[f.i] = <<key, value>>],
          res |-> Return(Some(m.array[f.i][2]))]
    ELSE LET shifted == ShiftRight(m.array, f.i, m.len - 1)
         IN IF f.i >= LibCapacity
            THEN [map |-> [m EXCEPT !.array = shifted], res |-> Panic]
            ELSE [map |-> [array |-> [shifted EXCEPT ![f.i] = <<key, value>>],
                           len |-> m.len + 1],
                  res |-> Return(None)]

\* remove, given find's result f.  Ok(i): the swaps run for
\* j = i + 1 .. len - 1, then a default pair is swapped into slice[i] and
\* the value swapped out is returned; len is left as it is.
lib_remove(m, f) ==
    IF f = Panic THEN [map |-> m, res |-> Panic]
    ELSE IF f.ok
    THEN LET shifted == ShiftLeft(m.array, f.i + 1, m.len)
         IN [map |-> [m EXCEPT !.array = [shifted EXCEPT ![f.i] = LibDefault]],
             res |-> Return(Some(shifted[f.i][2]))]
    ELSE [map |-> m, res |-> Return(None)]

LibCall(op, r, out) ==
    /\ kind = "LibArrayMap"
    /\ map' = r.map
    /\ last' = Call(op, r.res.tag, out)
    /\ UNCHANGED <<kind, set, tmap, tset, ref, mem, io>>

LibInsert(key, value) ==
    \E f \in lib_find(map, key) :
        LET r == lib_insert(map, key, value, f)
        IN LibCall("insert", r,
                   IF r.res.tag = "Return" THEN OptionOut(r.res.val) ELSE "-")

LibRemove(key) ==
    \E f \in lib_find(map, key) :
        LET r == lib_remove(map, f)
        IN LibCall("remove", r,
                   IF r.res.tag = "Return" THEN OptionOut(r.res.val) ELSE "-")

LibGet(key) ==
    \E f \in lib_find(map, key) :
        LET r == lib_get(map, f)
        IN LibCall("get", [map |-> map, res |-> r],
                   IF r.tag = "Return" THEN OptionOut(r.val) ELSE "-")

LibLen == LibCall("len", [map |-> map, res |-> Return(lib_len(map))], "-")

InitLib ==
    /\ kind = "LibArrayMap"
    /\ map = lib_new
    /\ set = ArraySetDefault
    /\ tmap = TinyMapDefault
    /\ tset = TinySetDefault
    /\ ref = RefEmpty
    /\ last = Call("new", "Return", "-")
    /\ made = {}
    /\ drops = [o \in ObjIds |-> 0]
    /\ wild = 0
    /\ life = "live"
    /\ yielded = <<>>
    /\ input = <<>>
    /\ output = None

NextLib ==
    \/ \E key \in Keys, value \in Values : LibInsert(key, value)
    \/ \E key \in Keys : LibRemove(key)
    \/ \E key \in Keys : LibGet(key)
    \/ LibLen

SpecLib == InitLib /\ [][NextLib]_vars

(***************************************************************************)
(* The fixed-capacity containers alone, under insert, try_insert, remove,  *)
(* clear, the read-only calls and get_mut.                                 *)
(***************************************************************************)
InitArray ==
    /\ Init
    /\ kind \in {"ArrayMap", "ArraySet"}

NextArray ==
    \/ \E key \in Keys, value \in Values : MapTryInsert(key, value)
    \/ \E key \in Keys, value \in Values : MapInsert(key, value)
    \/ \E key \in Keys : MapRemove(key)
    \/ MapClear
    \/ \E key \in Keys : MapGet(key)
    \/ \E key \in Keys, value \in Values : MapGetMut(key, value)
    \/ \E key \in Keys : MapContainsKey(key)
    \/ MapLen
    \/ MapIsEmpty
    \/ MapIter
    \/ \E value \in Keys : SetTryInsert(value)
    \/ \E value \in Keys : SetInsert(value)
    \/ \E value \in Keys : SetRemove(value)
    \/ SetClear
    \/ \E value \in Keys : SetContains(value)
    \/ \E value \in Keys : SetGet(value)
    \/ SetLen
    \/ SetIsEmpty
    \/ SetIter

SpecArray == InitArray /\ [][NextArray]_vars

(***************************************************************************)
(* The hybrid containers alone, under every public operation: the          *)
(* mutating calls above, the read-only calls, get_mut and the entry view.  *)
(***************************************************************************)
InitTiny ==
    /\ Init
    /\ kind \in {"TinyMap", "TinySet"}

NextTiny ==
    \/ \E key \in Keys, value \in Values : TinyMapInsert(key, value)
    \/ \E key \in Keys : TinyMapRemove(key)
    \/ TinyMapClear
    \/ \E key \in Keys : TinyMapGet(key)
    \/ \E key \in Keys : TinyMapContainsKey(key)
    \/ TinyMapLen
    \/ TinyMapIter
    \/ \E key \in Keys, value \in Values : TinyMapGetMut(key, value)
    \/ \E key \in Keys, value \in Values : TinyMapEntryOrInsert(key, value)
    \/ \E value \in Keys : TinySetInsert(value)
    \/ \E value \in Keys : TinySetRemove(value)
    \/ TinySetClear
    \/ \E value \in Keys : TinySetContains(value)
    \/ \E value \in Keys : TinySetGet(value)
    \/ TinySetLen
    \/ TinySetIter

SpecTiny == InitTiny /\ [][NextTiny]_vars

\* The entry view of the TinyMap, with insert and remove to fill and empty
\* the map.
InitTinyEntry ==
    /\ Init
    /\ kind = "TinyMap"

NextTinyEntry ==
    \/ \E key \in Keys, value \in Values : TinyMapInsert(key, value)
    \/ \E key \in Keys : TinyMapRemove(key)
    \/ \E key \in Keys, value \in Values : TinyMapEntryOrInsert(key, value)

SpecTinyEntry == InitTinyEntry /\ [][NextTinyEntry]_vars

(***************************************************************************)
(* Ownership.  The containers hold objects: a map stores object ids as its *)
(* values, a set stores them as its items.  Every insert creates a fresh   *)
(* object; a value handed back to the caller (a removed value, a replaced  *)
(* value, a rejected pair) is discarded by the caller at once, which runs  *)
(* its destructor.                                                         *)
(***************************************************************************)
\* The object a slot holds: the value of a pair, the item of a set entry.
ObjOf(slot) == slot[Len(slot)]

\* drop_in_place on each of slots[n..], in order: the destructor of the
\* object in a written slot, a destructor run on no value for an empty one.
RECURSIVE DestroySlots(_, _, _)
DestroySlots(acc, slots, n) ==
    IF n > Len(slots) THEN acc
    ELSE DestroySlots(
             IF slots[n] = Uninit
             THEN [acc EXCEPT !.wild = @ + 1]
             ELSE [acc EXCEPT !.drops[ObjOf(slots[n])] = @ + 1],
             slots, n + 1)

\* The caller discards an Option it was handed.
DestroyOption(acc, opt) ==
    IF opt = None THEN acc ELSE [acc EXCEPT !.drops[opt[1]] = @ + 1]

Acc == [drops |-> drops, wild |-> wild]

\* What reading an unwritten slot can yield: zero bytes, or stale bytes.
Garbage == IF kind \in {"ArrayMap", "TinyMap"}
           THEN {<<0, 0>>, <<MaxKey, 1>>} ELSE {<<0>>, <<1>>}

\* Running a destructor on no value is undefined: the program goes on, or
\* it crashes.
Outcomes(acc, on) == IF acc.wild > wild THEN {on, "crashed"} ELSE {on}

Own(id, acc, l, y) ==
    /\ made' = made \cup id
    /\ drops' = acc.drops
    /\ wild' = acc.wild
    /\ life' \in Outcomes(acc, l)
    /\ yielded' = y

Fresh == Cardinality(made) + 1

DropMapInsert(key) ==
    /\ kind = "ArrayMap" /\ life = "live" /\ Fresh \in ObjIds
    /\ LET r == insert(map, key, Fresh)
           acc == IF r.res = Panic THEN DestroyOption(Acc, Some(Fresh))
                  ELSE DestroyOption(Acc, r.res.val)
       IN /\ map' = r.map
          /\ last' = Call("insert", r.res.tag, "-")
          /\ Own({Fresh}, acc, "live", yielded)
    /\ UNCHANGED <<kind, set, tmap, tset, ref, io>>

DropMapRemove(key) ==
    /\ kind = "ArrayMap" /\ life = "live"
    /\ LET r == remove(map, key)
       IN /\ map' = r.map
          /\ last' = Call("remove", "Return", OptionOut(r.res.val))
          /\ Own({}, DestroyOption(Acc, r.res.val), "live", yielded)
    /\ UNCHANGED <<kind, set, tmap, tset, ref, io>>

\* *self = Self::new() drops the old map.
DropMapClear ==
    /\ kind = "ArrayMap" /\ life = "live"
    /\ map' = clear(map)
    /\ last' = Call("clear", "Return", "-")
    /\ Own({}, DestroySlots(Acc, drop(map), 1), "live", yielded)
    /\ UNCHANGED <<kind, set, tmap, tset, ref, io>>

\* The map goes out of scope.
DropMapDrop ==
    /\ kind = "ArrayMap" /\ life = "live"
    /\ last' = Call("drop", "Return", "-")
    /\ Own({}, DestroySlots(Acc, drop(map), 1), "dropped", yielded)
    /\ UNCHANGED <<kind, map, set, tmap, tset, ref, io>>

\* for (k, v) in map {}: into_iter moves the array out and drops what is
\* left of self; the loop takes every item of the Vec and discards it.
DropMapIntoIter ==
    /\ kind = "ArrayMap" /\ life = "live"
    /\ \E g \in [1..CAPACITY -> Garbage] :
           LET items == into_iter(map)
               after_self == DestroySlots(Acc, drop(into_iter_residue(map)), 1)
           IN /\ map' = into_iter_residue(map)
              /\ last' = Call("into_iter", "Return", "-")
              /\ Own({}, DestroySlots(after_self, items, 1), "consumed",
                     [n \in 1..CAPACITY |-> IntoIter_next(items[n], g[n])])
    /\ UNCHANGED <<kind, set, tmap, tset, ref, io>>

DropSetInsert(value) ==
    /\ kind = "ArraySet" /\ life = "live" /\ value \in ObjIds \ made
    /\ LET r == set_insert(set, value)
           acc == IF r.res = Return(TRUE) THEN Acc
                  ELSE DestroyOption(Acc, Some(value))
       IN /\ set' = r.set
          /\ last' = Call("insert", r.res.tag, "-")
          /\ Own({value}, acc, "live", yielded)
    /\ UNCHANGED <<kind, map, tmap, tset, ref, io>>

\* ArraySet::remove takes the value out of its slot and drops it.
DropSetRemove(value) ==
    /\ kind = "ArraySet" /\ life = "live"
    /\ LET r == set_remove(set, value)
       IN /\ set' = r.set
          /\ last' = Call("remove", "Return", BoolOut(r.res.val))
          /\ Own({}, DestroyOption(Acc, set_get(set, value)), "live", yielded)
    /\ UNCHANGED <<kind, map, tmap, tset, ref, io>>

DropSetClear ==
    /\ kind = "ArraySet" /\ life = "live"
    /\ set' = set_clear(set)
    /\ last' = Call("clear", "Return", "-")
    /\ Own({}, DestroySlots(Acc, set_drop(set), 1), "live", yielded)
    /\ UNCHANGED <<kind, map, tmap, tset, ref, io>>

DropSetDrop ==
    /\ kind = "ArraySet" /\ life = "live"
    /\ last' = Call("drop", "Return", "-")
    /\ Own({}, DestroySlots(Acc, set_drop(set), 1), "dropped", yielded)
    /\ UNCHANGED <<kind, map, set, tmap, tset, ref, io>>

DropSetIntoIter ==
    /\ kind = "ArraySet" /\ life = "live"
    /\ \E g \in [1..CAPACITY -> Garbage] :
           LET items == set_into_iter(set)
               after_self == DestroySlots(Acc, set_drop(set_into_iter_residue(set)), 1)
           IN /\ set' = set_into_iter_residue(set)
              /\ last' = Call("into_iter", "Return", "-")
              /\ Own({}, DestroySlots(after_self, items, 1), "consumed",
                     [n \in 1..CAPACITY |-> IntoIter_next(items[n], g[n])])
    /\ UNCHANGED <<kind, map, tmap, tset, ref, io>>

\* TinyMap::insert.  A promoting insert drains replacement_map through
\* into_iter, which drops what is left of replacement_map; the drained items
\* move into the BTreeMap.
DropTinyMapInsert(key) ==
    /\ kind = "TinyMap" /\ life = "live" /\ Fresh \in ObjIds
    /\ LET r == tiny_insert(tmap, key, Fresh)
           promoted == tmap.tag = "Stack" /\ r.map.tag = "Heap"
           after_self == IF promoted
                         THEN DestroySlots(Acc, drop(into_iter_residue(tmap.stack)), 1)
                         ELSE Acc
       IN /\ tmap' = r.map
          /\ last' = Call("insert", r.res.tag, IF promoted THEN "promoted" ELSE "-")
          /\ Own({Fresh}, DestroyOption(after_self, r.res.val), "live", yielded)
    /\ UNCHANGED <<kind, map, set, tset, ref, io>>

DropTinyMapRemove(key) ==
    /\ kind = "TinyMap" /\ life = "live"
    /\ LET r == tiny_remove(tmap, key)
       IN /\ tmap' = r.map
          /\ last' = Call("remove", "Return", OptionOut(r.res.val))
          /\ Own({}, DestroyOption(Acc, r.res.val), "live", yielded)
    /\ UNCHANGED <<kind, map, set, tset, ref, io>>

\* *self = Self::new() drops the old TinyMap.
DropTinyMapClear ==
    /\ kind = "TinyMap" /\ life = "live"
    /\ tmap' = tiny_clear(tmap)
    /\ last' = Call("clear", "Return", "-")
    /\ Own({}, DestroySlots(Acc, tiny_drop(tmap), 1), "live", yielded)
    /\ UNCHANGED <<kind, map, set, tset, ref, io>>

DropTinyMapDrop ==
    /\ kind = "TinyMap" /\ life = "live"
    /\ last' = Call("drop", "Return", "-")
    /\ Own({}, DestroySlots(Acc, tiny_drop(tmap), 1), "dropped", yielded)
    /\ UNCHANGED <<kind, map, set, tmap, tset, ref, io>>

DropTinySetInsert(value) ==
    /\ kind = "TinySet" /\ life = "live" /\ value \in ObjIds \ made
    /\ LET r == tinyset_insert(tset, value)
           promoted == tset.tag = "Stack" /\ r.set.tag = "Heap"
           after_self == IF promoted
                         THEN DestroySlots(Acc,
                                  set_drop(set_into_iter_residue(tset.stack)), 1)
                         ELSE Acc
       IN /\ tset' = r.set
          /\ last' = Call("insert", r.res.tag, IF promoted THEN "promoted" ELSE "-")
          /\ Own({value},
                 IF r.res = Return(TRUE) THEN after_self
                 ELSE DestroyOption(after_self, Some(value)),
                 "live", yielded)
    /\ UNCHANGED <<kind, map, set, tmap, ref, io>>

DropTinySetRemove(value) ==
    /\ kind = "TinySet" /\ life = "live"
    /\ LET r == tinyset_remove(tset, value)
       IN /\ tset' = r.set
          /\ last' = Call("remove", "Return", BoolOut(r.res.val))
          /\ Own({}, DestroyOption(Acc, tinyset_get(tset, value)), "live", yielded)
    /\ UNCHANGED <<kind, map, set, tmap, ref, io>>

DropTinySetClear ==
    /\ kind = "TinySet" /\ life = "live"
    /\ tset' = tinyset_clear(tset)
    /\ last' = Call("clear", "Return", "-")
    /\ Own({}, DestroySlots(Acc, tinyset_drop(tset), 1), "live", yielded)
    /\ UNCHANGED <<kind, map, set, tmap, ref, io>>

DropTinySetDrop ==
    /\ kind = "TinySet" /\ life = "live"
    /\ last' = Call("drop", "Return", "-")
    /\ Own({}, DestroySlots(Acc, tinyset_drop(tset), 1), "dropped", yielded)
    /\ UNCHANGED <<kind, map, set, tmap, tset, ref, io>>

NextDrop ==
    \/ \E key \in Keys : DropMapInsert(key)
    \/ \E key \in Keys : DropMapRemove(key)
    \/ DropMapClear
    \/ DropMapDrop
    \/ DropMapIntoIter
    \/ \E value \in ObjIds : DropSetInsert(value)
    \/ \E value \in ObjIds : DropSetRemove(value)
    \/ DropSetClear
    \/ DropSetDrop
    \/ DropSetIntoIter
    \/ \E key \in Keys : DropTinyMapInsert(key)
    \/ \E key \in Keys : DropTinyMapRemove(key)
    \/ DropTinyMapClear
    \/ DropTinyMapDrop
    \/ \E value \in ObjIds : DropTinySetInsert(value)
    \/ \E value \in ObjIds : DropTinySetRemove(value)
    \/ DropTinySetClear
    \/ DropTinySetDrop

SpecDrop == Init /\ [][NextDrop]_vars

(***************************************************************************)
(* Collecting and deserializing.  The input is a sequence of keys; as map  *)
(* entries item n carries the value n, which tells the items apart.        *)
(***************************************************************************)
MaxLen == CAPACITY + 1

Inputs == UNION {[1..l -> Keys] : l \in 0..MaxLen}

Pairs(items) == [n \in 1..Len(items) |-> <<items[n], n>>]

\* slice.sort_unstable_by(|a, b| a.key.cmp(b.key)), as the set of results
\* it can give: the slots rearranged so that the keys do not descend.  The
\* sort is unstable, the order among slots with equal keys is unspecified.
sort_unstable_by(array) ==
    {sorted \in {[i \in Indices |-> array[p[i]]] :
                    p \in {q \in [Indices -> Indices] :
                              \A i, j \in Indices : q[i] = q[j] => i = j}} :
        \A i \in Indices \ {0} : Rank(sorted[i - 1][1]) <= Rank(sorted[i][1])}

\* The backing array that holds the items in the order given.
ArrayOf(items) == [i \in Indices |-> items[i + 1]]

\* From<A> for ArrayMap, for each result of the sort: len is A::CAPACITY.
from(array) == {[array |-> sorted, len |-> CAPACITY] : sorted \in sort_unstable_by(array)}

\* From<A> for ArraySet
set_from(array) == {[array |-> sorted, len |-> CAPACITY] : sorted \in sort_unstable_by(array)}

Result(op, val) == [op |-> op, val |-> val]

InitCollect ==
    /\ kind = "Input"
    /\ map = ArrayMapDefault
    /\ set = ArraySetDefault
    /\ tmap = TinyMapDefault
    /\ tset = TinySetDefault
    /\ ref = RefEmpty
    /\ last = Call("new", "Return", "-")
    /\ made = {}
    /\ drops = [o \in ObjIds |-> 0]
    /\ wild = 0
    /\ life = "live"
    /\ yielded = <<>>
    /\ input \in Inputs
    /\ output = None

Collect(result) ==
    /\ output' = result
    /\ UNCHANGED <<kind, map, set, tmap, tset, ref, last, mem, input>>

CollectArrayMap == Collect(Result("ArrayMap::from_iter", from_iter(Pairs(input))))
CollectArraySet == Collect(Result("ArraySet::from_iter", set_from_iter(input)))
CollectTinyMap == Collect(Result("TinyMap::from_iter", tiny_from_iter(Pairs(input))))
CollectTinySet == Collect(Result("TinySet::from_iter", tinyset_from_iter(input)))
DeserializeArrayMap == Collect(Result("ArrayMap::deserialize", visit_map(Pairs(input))))
DeserializeArraySet == Collect(Result("ArraySet::deserialize", visit_seq(input)))

\* ArrayMap::from / ArraySet::from of an array whose CAPACITY slots are all
\* written, holding the items of the input in order.
FromArrayMap ==
    /\ Len(input) = CAPACITY
    /\ \E m \in from(ArrayOf(Pairs(input))) : Collect(Result("ArrayMap::from", m))

FromArraySet ==
    /\ Len(input) = CAPACITY
    /\ \E s \in set_from(ArrayOf([n \in 1..Len(input) |-> EntryNew(input[n])])) :
           Collect(Result("ArraySet::from", s))

NextCollect ==
    \/ CollectArrayMap
    \/ CollectArraySet
    \/ CollectTinyMap
    \/ CollectTinySet
    \/ DeserializeArrayMap
    \/ DeserializeArraySet
    \/ FromArrayMap
    \/ FromArraySet

SpecCollect == InitCollect /\ [][NextCollect]_vars

(***************************************************************************)
(* Properties                                                              *)
(***************************************************************************)
\* The keys of a sequence of slots, in order.
KeySeq(items) == [n \in 1..Len(items) |-> items[n][1]]

StrictlyAscending(ks) == \A n \in 1..(Len(ks) - 1) : ks[n] < ks[n + 1]

\* Slots [0, len) hold one value each.
Occupied(c) == \A i \in 0..(c.len - 1) : c.array[i] # Uninit

\* C1: an ArrayMap / ArraySet created by new() and driven by insert,
\* try_insert, remove and the entry-based inserts and removes always has
\* len <= CAPACITY and strictly ascending keys in slots [0, len), so
\* iteration yields strictly ascending keys.
C1_SortedPrefix ==
    /\ map.len <= CAPACITY
    /\ Occupied(map)
    /\ StrictlyAscending(KeySeq(iter(map)))
    /\ set.len <= CAPACITY
    /\ Occupied(set)
    /\ StrictlyAscending(KeySeq(set_iter(set)))

\* C1 witness: a full map whose last entry went in through the entry view.
C1_Witness ==
    /\ kind = "ArrayMap"
    /\ last = Call("or_insert", "Return", "ref")
    /\ map.len = CAPACITY
    /\ map.array[0][1] < map.array[CAPACITY - 1][1]

C3_CapacityBoundary ==
    /\ \A k \in Keys, v \in Values :
        LET r == try_insert(map, k, v)
        IN /\ map.len < CAPACITY => r.res.tag = "Ok"
           /\ (map.len < CAPACITY /\ ~contains_key(map, k)) =>
                  r.res = Ok(None) /\ r.map.len = map.len + 1
           /\ (map.len = CAPACITY /\ ~contains_key(map, k)) =>
                  r.res = Err(<<k, v>>) /\ r.map.len = CAPACITY
    /\ \A x \in Keys :
        LET r == set_try_insert(set, x)
        IN /\ set.len < CAPACITY => r.res.tag = "Ok"
           /\ (set.len < CAPACITY /\ ~set_contains(set, x)) =>
                  r.res = Ok(TRUE) /\ r.set.len = set.len + 1
           /\ (set.len = CAPACITY /\ ~set_contains(set, x)) =>
                  r.res = Err(x) /\ r.set.len = CAPACITY

\* C3 witness: the map holds keys 2, 3, 5 (three accepted try_inserts) and the
\* last try_insert was rejected.
C3_Witness ==
    /\ kind = "ArrayMap"
    /\ last = Call("try_insert", "Err", "pair")
    /\ map.len = CAPACITY
    /\ {map.array[i][1] : i \in Indices} = {2, 3, 5}

\* C4: a try_insert that returns Err, and an insert that panics for
\* capacity, leave the container as it was: len and every slot of [0, len).
C4_RejectedInsertChangesNothing ==
    /\ \A k \in Keys, v \in Values :
        LET r == try_insert(map, k, v)
            q == insert(map, k, v)
        IN /\ r.res.tag = "Err" => r.map.len = map.len /\ iter(r.map) = iter(map)
           /\ q.res = Panic => q.map.len = map.len /\ iter(q.map) = iter(map)
    /\ \A x \in Keys :
        LET r == set_try_insert(set, x)
            q == set_insert(set, x)
        IN /\ r.res.tag = "Err" => r.set.len = set.len /\ set_iter(r.set) = set_iter(set)
           /\ q.res = Panic => q.set.len = set.len /\ set_iter(q.set) = set_iter(set)

\* C4 witness: an insert has panicked on a full map.
C4_Witness ==
    /\ kind = "ArrayMap"
    /\ last = Call("insert", "Panic", "-")
    /\ map.len = CAPACITY

\* C5: in every reachable ArrayMap state, insert and try_insert of a key
\* that is already present return the old value, make get(key) return the
\* new value and leave len() as it was.
C5_UpdateReturnsOldValue ==
    kind = "ArrayMap" =>
        \A k \in Keys, v \in Values :
            contains_key(map, k) =>
                LET r == try_insert(map, k, v)
                    q == insert(map, k, v)
                IN /\ r.res = Ok(get(map, k))
                   /\ get(r.map, k) = Some(v)
                   /\ r.map.len = map.len
                   /\ q.res = Return(get(map, k))
                   /\ get(q.map, k) = Some(v)
                   /\ q.map.len = map.len

\* C6: whenever insert(K, V) succeeds, get(K) then yields Some(V), remove(K)
\* yields Some(V), and get(K) after that yields None.
C6_InsertGetRemoveRoundTrip ==
    /\ kind = "ArrayMap" =>
        \A k \in Keys, v \in Values :
            LET r == insert(map, k, v)
                d == remove(r.map, k)
            IN r.res.tag = "Return" =>
                   /\ get(r.map, k) = Some(v)
                   /\ d.res = Return(Some(v))
                   /\ get(d.map, k) = None
    /\ kind = "TinyMap" =>
        \A k \in Keys, v \in Values :
            LET r == tiny_insert(tmap, k, v)
                d == tiny_remove(r.map, k)
            IN r.res.tag = "Return" =>
                   /\ tiny_get(r.map, k) = Some(v)
                   /\ d.res = Return(Some(v))
                   /\ tiny_get(d.map, k) = None

\* C6 witness: an insert that replaced a value has returned, on a map with
\* other keys around it.
C6_Witness ==
    /\ kind = "ArrayMap"
    /\ last = Call("insert", "Return", "Some")
    /\ map.len = CAPACITY - 1
    /\ \E k \in Keys : get(map, k) = Some(2)

\* The items of a sequence of slots whose key is not k, in order.
Without(items, k) == SelectSeq(items, LAMBDA e : e[1] # k)

\* C7: remove(key) of a present key returns its value (true for a set),
\* takes len down by one, leaves key not found and every other entry in place
\* with its value and order; remove of an absent key returns None (false) and
\* changes nothing; a second remove of the same key returns None (false).
C7_Remove ==
    /\ \A k \in Keys :
        LET r == remove(map, k)
        IN /\ IF contains_key(map, k)
              THEN /\ r.res = Return(get(map, k))
                   /\ r.res.val # None
                   /\ r.map.len = map.len - 1
                   /\ ~contains_key(r.map, k)
                   /\ get(r.map, k) = None
                   /\ iter(r.map) = Without(iter(map), k)
              ELSE /\ r.res = Return(None)
                   /\ r.map.len = map.len
                   /\ iter(r.map) = iter(map)
           /\ remove(r.map, k).res = Return(None)
    /\ \A x \in Keys :
        LET r == set_remove(set, x)
        IN /\ IF set_contains(set, x)
              THEN /\ r.res = Return(TRUE)
                   /\ r.set.len = set.len - 1
                   /\ ~set_contains(r.set, x)
                   /\ set_iter(r.set) = Without(set_iter(set), x)
              ELSE /\ r.res = Return(FALSE)
                   /\ r.set.len = set.len
                   /\ set_iter(r.set) = set_iter(set)
           /\ set_remove(r.set, x).res = Return(FALSE)

\* C7 witness: a removal from a full map that found its key.
C7_Witness ==
    /\ kind = "ArrayMap"
    /\ last = Call("remove", "Return", "Some")
    /\ map.len = CAPACITY - 1
    /\ map.array[CAPACITY - 1] = Uninit

\* C8: in every reachable ArraySet state, insert of a value already present
\* returns false and leaves the set unchanged; insert of a value not present
\* returns true (or, on a full set, panics for capacity as documented).
C8_SetInsert ==
    kind = "ArraySet" =>
        \A x \in Keys :
            LET r == set_insert(set, x)
            IN IF set_contains(set, x)
               THEN /\ r.res = Return(FALSE)
                    /\ r.set.len = set.len
                    /\ set_iter(r.set) = set_iter(set)
               ELSE \/ r.res = Return(TRUE)
                    \/ set.len = CAPACITY /\ r.res = Panic

C11_HeapIsNeverLeft ==
    [][/\ tmap.tag = "Heap" => tmap'.tag = "Heap"
       /\ tset.tag = "Heap" => tset'.tag = "Heap"]_vars

\* C12: an insert into a Stack TinyMap / TinySet moves it to Heap exactly
\* when len = CAPACITY and the key is not held; with room left, or with the
\* key already held, the container stays in the Stack state.
C12_PromotionExactlyOnOverflow ==
    /\ (kind = "TinyMap" /\ tmap.tag = "Stack") =>
           \A k \in Keys, v \in Values :
               (tiny_insert(tmap, k, v).map.tag = "Heap")
                   <=> (tiny_len(tmap) = CAPACITY /\ ~tiny_contains_key(tmap, k))
    /\ (kind = "TinySet" /\ tset.tag = "Stack") =>
           \A x \in Keys :
               (tinyset_insert(tset, x).set.tag = "Heap")
                   <=> (tinyset_len(tset) = CAPACITY /\ ~tinyset_contains(tset, x))

\* C13: a promoting insert is all-or-nothing.  The Heap container it leaves
\* holds the entries the Stack held and the triggering entry, each once and
\* nothing else; nothing is left in the stack array; the call returns what
\* inserting the triggering entry into that heap container returns; and in
\* every state the caller can see, only the representation named by the tag
\* holds elements.
C13_PromotionAllOrNothing ==
    /\ tmap.tag = "Stack" => tmap.heap = BTreeMapNew
    /\ tmap.tag = "Heap" => tmap.stack = ArrayMapDefault
    /\ tset.tag = "Stack" => tset.heap = BTreeSetNew
    /\ tset.tag = "Heap" => tset.stack = ArraySetDefault
    /\ (kind = "TinyMap" /\ tmap.tag = "Stack") =>
           \A k \in Keys, v \in Values :
               LET r == tiny_insert(tmap, k, v)
               IN r.map.tag = "Heap" =>
                      /\ r.map.heap = [o \in Keys |-> IF o = k THEN Some(v)
                                                      ELSE get(tmap.stack, o)]
                      /\ r.map.stack = ArrayMapDefault
                      /\ Without(btree_iter(r.map.heap), k)
                             = Without(iter(tmap.stack), k)
                      /\ r.res = Return(get(tmap.stack, k))
    /\ (kind = "TinySet" /\ tset.tag = "Stack") =>
           \A x \in Keys :
               LET r == tinyset_insert(tset, x)
               IN r.set.tag = "Heap" =>
                      /\ r.set.heap = {o \in Keys : o = x \/ set_contains(tset.stack, o)}
                      /\ r.set.stack = ArraySetDefault
                      /\ Without(btreeset_iter(r.set.heap), x)
                             = Without(set_iter(tset.stack), x)
                      /\ r.res = Return(~set_contains(tset.stack, x))

\* C13 witness: the promoting insert has just returned: a Heap map with
\* exactly CAPACITY + 1 entries after an insert of a key not held.
C13_Witness ==
    /\ kind = "TinyMap"
    /\ last = Call("insert", "Return", "None")
    /\ tmap.tag = "Heap"
    /\ tiny_len(tmap) = CAPACITY + 1
    /\ ref[MaxKey] = Some(MaxValue)

\* C14: get, get_mut, remove, contains / contains_key, len, iteration and
\* the entry view (entry(key).or_insert included) leave the Stack / Heap
\* state as it was before the call.
C14_OnlyInsertChangesState ==
    [][last'.op \in {"get", "get_mut", "remove", "contains_key", "contains",
                     "len", "iter", "or_insert"}
          => (tmap'.tag = tmap.tag /\ tset'.tag = tset.tag)]_vars

\* C14 witness: removals have emptied a Heap map.
C14_Witness ==
    /\ kind = "TinyMap"
    /\ last = Call("remove", "Return", "Some")
    /\ tmap.tag = "Heap"
    /\ tiny_len(tmap) = 0

\* C18: entry(key).or_insert(default), when it completes, leaves the map as
\* 'if key is present do nothing, else try_insert(key, default)' does.  For
\* an occupied entry the map is unchanged and the reference is to the
\* existing value; for a vacant entry (key, default) sits at the precomputed
\* insertion index, the keys are still strictly ascending, len has grown by
\* one and the reference is to the value stored under key.
C18_OrInsert ==
    kind = "ArrayMap" =>
        \A k \in Keys, d \in Values :
            LET e == entry(map, k)
                r == or_insert(map, e, d)
            IN r.res.tag = "Return" =>
                   IF contains_key(map, k)
                   THEN /\ e.occupied
                        /\ r.map = map
                        /\ r.res.val = get(map, k)[1]
                   ELSE /\ ~e.occupied
                        /\ r.map = try_insert(map, k, d).map
                        /\ r.map.array[e.index] = <<k, d>>
                        /\ r.map.len = map.len + 1
                        /\ Occupied(r.map)
                        /\ StrictlyAscending(KeySeq(iter(r.map)))
                        /\ get(r.map, k) = Some(d)
                        /\ r.res.val = get(r.map, k)[1]
                        /\ \A o \in Keys \ {k} : get(r.map, o) = get(map, o)

\* C18 witness: or_insert has returned on a full map that holds key 3 with
\* value 2 in its second slot.
C18_Witness ==
    /\ kind = "ArrayMap"
    /\ last = Call("or_insert", "Return", "ref")
    /\ map.len = CAPACITY
    /\ map.array[1] = <<3, 2>>

\* C19: on a map with len = CAPACITY, entry(key).or_try_insert(default) for
\* a key not held returns Err with exactly (key, default) and
\* entry(key).or_insert(default) aborts, both leaving the map unchanged; for
\* a key that is held both return a reference to the existing value.
C19_EntryOnFullMap ==
    (kind = "ArrayMap" /\ map.len = CAPACITY) =>
        \A k \in Keys, d \in Values :
            LET e == entry(map, k)
                t == or_try_insert(map, e, d)
                r == or_insert(map, e, d)
            IN IF contains_key(map, k)
               THEN /\ t = [map |-> map, res |-> Ok(get(map, k)[1])]
                    /\ r = [map |-> map, res |-> Return(get(map, k)[1])]
               ELSE /\ t = [map |-> map, res |-> Err(<<k, d>>)]
                    /\ r = [map |-> map, res |-> Panic]

\* C19 witness: or_try_insert has handed its pair back on a full map.
C19_Witness ==
    /\ kind = "ArrayMap"
    /\ last = Call("or_try_insert", "Err", "pair")
    /\ map.len = CAPACITY

\* C20: on a Stack TinyMap with len = CAPACITY, entry(key).or_insert(default)
\* for a key not held aborts and leaves the map in the Stack state with its
\* entries unchanged, where the plain insert of the same pair promotes.
C20_EntryDoesNotPromote ==
    (kind = "TinyMap" /\ tmap.tag = "Stack" /\ tiny_len(tmap) = CAPACITY) =>
        \A k \in Keys, d \in Values :
            ~tiny_contains_key(tmap, k) =>
                /\ tiny_or_insert(tmap, k, d) = [map |-> tmap, res |-> Panic]
                /\ tiny_insert(tmap, k, d).map.tag = "Heap"

\* C20 witness: or_insert has aborted on a full Stack map.
C20_Witness ==
    /\ kind = "TinyMap"
    /\ last = Call("or_insert", "Panic", "-")
    /\ tmap.tag = "Stack"
    /\ tiny_len(tmap) = CAPACITY

\* The objects a live fixed container holds.
Held ==
    IF kind = "ArrayMap" THEN {map.array[i][2] : i \in 0..(map.len - 1)}
    ELSE {set.array[i][1] : i \in 0..(set.len - 1)}

\* C15: with values that count their destructions, a fixed ArrayMap /
\* ArraySet destroys no value it holds; a value removed (or handed back) is
\* destroyed exactly once, when it is removed; dropping the container
\* destroys each value it still holds exactly once; so after the drop every
\* value created has been destroyed exactly once, and no destructor has run
\* on anything else.
C15_DropsExactlyOnce ==
    (kind \in {"ArrayMap", "ArraySet"} /\ life \in {"live", "dropped"}) =>
        /\ wild = 0
        /\ \A o \in ObjIds :
               drops[o] = IF o \in made /\ ~(life = "live" /\ o \in Held)
                          THEN 1 ELSE 0
        /\ life = "live" => Held \subseteq made

\* C15 witness: a map that was given MaxObjects values, two of which it still
\* held, has been dropped.
C15_Witness ==
    /\ kind = "ArrayMap"
    /\ last = Call("drop", "Return", "-")
    /\ life = "dropped"
    /\ Cardinality(made) = MaxObjects
    /\ map.len = 2

\* C16: when the contents of an ArrayMap / ArraySet are moved out by
\* consuming iteration or by a TinyMap / TinySet promotion, no destructor
\* runs on an empty or moved-out slot, no value is destroyed twice, and once
\* the iteration is over every value has been destroyed exactly once.
C16_MovedOutSlotsAreNotDropped ==
    /\ wild = 0
    /\ \A o \in ObjIds : drops[o] <= 1
    /\ life = "consumed" => \A o \in made : drops[o] = 1

\* C17: consuming iteration over an ArrayMap / ArraySet yields exactly the
\* elements of slots [0, len), in ascending order, and nothing from the
\* slots [len, CAPACITY).
C17_IntoIterYieldsOccupiedSlots ==
    [][(life = "live" /\ life' = "consumed") =>
          /\ kind = "ArrayMap" => yielded' = iter(map)
          /\ kind = "ArraySet" => yielded' = set_iter(set)]_vars

\* C21: entry(key).and_modify(f) on an occupied entry applies f exactly once
\* to the value under key and changes no other entry, no key and not len; on
\* a vacant entry it does not apply f and leaves the map unchanged; it
\* returns the entry it was given, so and_modify(f).or_insert(d) yields
\* f(old) for a key that is held and d for one that is not.
C21_AndModify ==
    kind = "ArrayMap" =>
        \A k \in Keys, f \in Modifiers :
            LET e == entry(map, k)
                a == and_modify(map, e, f)
            IN /\ a.entry = e
               /\ IF e.occupied
                  THEN /\ contains_key(map, k)
                       /\ a.map = [map EXCEPT !.array[e.index][2] = f[get(map, k)[1]]]
                       /\ get(a.map, k) = Some(f[get(map, k)[1]])
                       /\ \A d \in Values :
                              or_insert(a.map, a.entry, d)
                                  = [map |-> a.map, res |-> Return(f[get(map, k)[1]])]
                  ELSE /\ ~contains_key(map, k)
                       /\ a.map = map
                       /\ \A d \in Values :
                              LET r == or_insert(a.map, a.entry, d)
                              IN r.res.tag = "Return" =>
                                     r.res.val = d /\ get(r.map, k) = Some(d)

\* C21 witness: and_modify(f).or_insert(d) has returned on a map whose first
\* key holds the greatest value, the increment of the one before it.
C21_Witness ==
    /\ kind = "ArrayMap"
    /\ last = Call("and_modify", "Return", "ref")
    /\ map.len = 2
    /\ map.array[0][2] = MaxValue

(***************************************************************************)
(* Collecting and deserializing (SpecCollect).                             *)
(***************************************************************************)
Distinct(items) == \A i, j \in 1..Len(items) : items[i] = items[j] => i = j

\* The positions of the first n items that carry key k.
PositionsOf(items, k, n) == {i \in 1..Len(items) : i <= n /\ items[i] = k}

Largest(S) == CHOOSE x \in S : \A y \in S : y <= x

\* What a map built from the first n entries of Pairs(items) answers for k.
LatestOf(items, k, n) ==
    IF PositionsOf(items, k, n) = {} THEN None
    ELSE Some(Largest(PositionsOf(items, k, n)))

\* C22: deserializing an input of more than CAPACITY entries into an
\* ArrayMap or an ArraySet ends with the invalid-length error, neither with
\* an abort nor with a truncated container; an input of at most CAPACITY
\* entries gives Ok of a container holding exactly those entries.  (The
\* entries of the input are taken to have pairwise different keys.)
C22_DeserializeOverCapacity ==
    Distinct(input) =>
        LET m == visit_map(Pairs(input))
            s == visit_seq(input)
        IN IF Len(input) > CAPACITY
           THEN /\ m = invalid_length(CAPACITY + 1)
                /\ s.tag = "Err"
           ELSE /\ m.tag = "Ok"
                /\ m.val.len = Len(input)
                /\ \A k \in Keys : get(m.val, k) = LatestOf(input, k, Len(input))
                /\ s.tag = "Ok"
                /\ s.val.len = Len(input)
                /\ \A k \in Keys :
                       set_contains(s.val, k) <=> \E i \in 1..Len(input) : input[i] = k

\* C24: collecting any sequence into an ArrayMap / ArraySet does not panic;
\* the result is sorted and holds exactly what inserting the first CAPACITY
\* items in order gives (for a map, the latest of them under each key), and
\* nothing of the items after them.
C24_FromIterTakesFirstN ==
    LET m == from_iter(Pairs(input))
        s == set_from_iter(input)
    IN /\ m.res # Panic
       /\ StrictlyAscending(KeySeq(iter(m.map)))
       /\ \A k \in Keys : get(m.map, k) = LatestOf(input, k, CAPACITY)
       /\ m.map.len = Cardinality({input[i] : i \in 1..Len(Take(input, CAPACITY))})
       /\ s.res # Panic
       /\ StrictlyAscending(KeySeq(set_iter(s.set)))
       /\ \A k \in Keys :
              set_contains(s.set, k) <=> PositionsOf(input, k, CAPACITY) # {}
       /\ s.set.len = Cardinality({input[i] : i \in 1..Len(Take(input, CAPACITY))})

\* An input one longer than the capacity, whose last item has a key of its
\* own and whose first CAPACITY items repeat a key, has been collected into
\* an ArrayMap.
C24_Witness ==
    /\ Len(input) = CAPACITY + 1
    /\ PositionsOf(input, input[Len(input)], CAPACITY) = {}
    /\ output # None
    /\ output.op = "ArrayMap::from_iter"
    /\ output.val.map.len = CAPACITY - 1
    /\ get(output.val.map, input[Len(input)]) = None

\* C25: collecting any sequence into a TinyMap / TinySet gives a container
\* in Stack state with at most CAPACITY elements, holding exactly what the
\* first CAPACITY items give and nothing of the items after them.
C25_TinyFromIterTakesFirstN ==
    LET m == tiny_from_iter(Pairs(input))
        s == tinyset_from_iter(input)
    IN /\ m.tag = "Stack"
       /\ tiny_len(m) <= CAPACITY
       /\ \A k \in Keys : tiny_get(m, k) = LatestOf(input, k, CAPACITY)
       /\ s.tag = "Stack"
       /\ tinyset_len(s) <= CAPACITY
       /\ \A k \in Keys :
              tinyset_contains(s, k) <=> PositionsOf(input, k, CAPACITY) # {}

\* An input of CAPACITY + 1 different keys has been collected into a
\* TinyMap: the map is full, on the stack, and lacks the last key.
C25_Witness ==
    /\ Len(input) = CAPACITY + 1
    /\ Distinct(input)
    /\ output # None
    /\ output.op = "TinyMap::from_iter"
    /\ output.val.tag = "Stack"
    /\ tiny_len(output.val) = CAPACITY
    /\ tiny_get(output.val, input[Len(input)]) = None

(***************************************************************************)
(* Totality of the calls on ArrayMap / ArraySet (SpecArray).               *)
(***************************************************************************)
\* Every slot of S lies in [0, len) and holds a value.
Inside(c, S) == \A i \in S : i \in 0..(c.len - 1) /\ c.array[i] # Uninit

InsertCalls == {"insert", "try_insert"}

\* C23: in every reachable state of an ArrayMap / ArraySet, get, get_mut,
\* contains(_key), remove, len, is_empty, clear and iter dereference only
\* slots of [0, len), all of them written, and return normally; a call
\* fails only if it is an insert and the container is full.
C23_OnlyInsertFails ==
    /\ last.tag \in {"Err", "Panic"} =>
           /\ last.op \in InsertCalls
           /\ kind = "ArrayMap" => map.len = CAPACITY
           /\ kind = "ArraySet" => set.len = CAPACITY
    /\ kind = "ArrayMap" =>
           /\ map.len \in 0..CAPACITY
           /\ Inside(map, iter_reads(map))
           /\ Inside(map, clear_reads(map))
           /\ Len(iter(map)) = map.len
           /\ is_empty(map) <=> iter(map) = <<>>
           /\ \A key \in Keys, value \in Values :
                  /\ Inside(map, find_reads(map, key))
                  /\ Inside(map, get_reads(map, key))
                  /\ Inside(map, remove_reads(map, key))
                  /\ get(map, key) \in {None} \cup {Some(v) : v \in Values}
                  /\ contains_key(map, key) \in BOOLEAN
                  /\ get_mut(map, key, value).res.tag = "Return"
                  /\ remove(map, key).res.tag = "Return"
                  /\ try_insert(map, key, value).res.tag = "Err" => map.len = CAPACITY
                  /\ insert(map, key, value).res = Panic => map.len = CAPACITY
    /\ kind = "ArraySet" =>
           /\ set.len \in 0..CAPACITY
           /\ Inside(set, iter_reads(set))
           /\ Inside(set, clear_reads(set))
           /\ Len(set_iter(set)) = set.len
           /\ is_empty(set) <=> set_iter(set) = <<>>
           /\ \A value \in Keys :
                  /\ Inside(set, find_reads(set, value))
                  /\ Inside(set, get_reads(set, value))
                  /\ Inside(set, remove_reads(set, value))
                  /\ set_get(set, value) \in {None, Some(value)}
                  /\ set_contains(set, value) \in BOOLEAN
                  /\ set_remove(set, value).res.tag = "Return"
                  /\ set_try_insert(set, value).res.tag = "Err" => set.len = CAPACITY
                  /\ set_insert(set, value).res = Panic => set.len = CAPACITY

\* A map with one free slot has just answered get for a key greater than
\* every key it holds: the search has probed the last occupied slot.
C23_Witness ==
    /\ kind = "ArrayMap"
    /\ last = Call("get", "Return", "None")
    /\ map.len = CAPACITY - 1
    /\ (map.len - 1) \in find_reads(map, MaxKey)
    /\ ~contains_key(map, MaxKey)

(***************************************************************************)
(* clear (SpecDrop).                                                       *)
(***************************************************************************)
\* The objects the container under test answers for.
Answered ==
    IF kind = "ArrayMap"
    THEN {get(map, k)[1] : k \in {k \in Keys : contains_key(map, k)}}
    ELSE IF kind = "ArraySet"
    THEN {o \in ObjIds : set_contains(set, o)}
    ELSE IF kind = "TinyMap"
    THEN {tiny_get(tmap, k)[1] : k \in {k \in Keys : tiny_contains_key(tmap, k)}}
    ELSE {o \in ObjIds : tinyset_contains(tset, o)}

\* CAPACITY different keys, greatest first.
Refill == [n \in 1..CAPACITY |-> <<CAPACITY + 1 - n, n>>]

\* C26: a clear() on a live ArrayMap / ArraySet / TinyMap / TinySet leaves
\* len 0, is_empty true and no key found; each object the container held
\* has had its destructor run once by the call and once in all, no other
\* destructor has run; and CAPACITY different keys go into the cleared
\* container again as into a new one.
C26_Clear ==
    [][last'.op = "clear" =>
           /\ life = "live" /\ life' = "live"
           /\ wild' = wild
           /\ \A o \in ObjIds :
                  drops'[o] = IF o \in Answered THEN 1 ELSE drops[o]
           /\ kind = "ArrayMap" =>
                  /\ map'.len = 0 /\ is_empty(map')
                  /\ \A k \in Keys : get(map', k) = None /\ ~contains_key(map', k)
                  /\ insert_all(map', Refill, 1).res # Panic
                  /\ insert_all(map', Refill, 1).map.len = CAPACITY
                  /\ insert_all(map', Refill, 1) = insert_all(ArrayMapDefault, Refill, 1)
           /\ kind = "ArraySet" =>
                  /\ set'.len = 0 /\ is_empty(set')
                  /\ \A k \in Keys : set_get(set', k) = None /\ ~set_contains(set', k)
                  /\ set_insert_all(set', KeySeq(Refill), 1).res # Panic
                  /\ set_insert_all(set', KeySeq(Refill), 1).set.len = CAPACITY
                  /\ set_insert_all(set', KeySeq(Refill), 1)
                         = set_insert_all(ArraySetDefault, KeySeq(Refill), 1)
           /\ kind = "TinyMap" =>
                  /\ tiny_len(tmap') = 0
                  /\ \A k \in Keys :
                         tiny_get(tmap', k) = None /\ ~tiny_contains_key(tmap', k)
                  /\ tiny_len(tiny_insert_all(tmap', Refill, 1)) = CAPACITY
                  /\ tiny_insert_all(tmap', Refill, 1)
                         = tiny_insert_all(TinyMapDefault, Refill, 1)
           /\ kind = "TinySet" =>
                  /\ tinyset_len(tset') = 0
                  /\ \A k \in Keys :
                         tinyset_get(tset', k) = None /\ ~tinyset_contains(tset', k)
                  /\ tinyset_len(tinyset_insert_all(tset', KeySeq(Refill), 1)) = CAPACITY
                  /\ tinyset_insert_all(tset', KeySeq(Refill), 1)
                         = tinyset_insert_all(TinySetDefault, KeySeq(Refill), 1)
      ]_vars

\* An ArrayMap that took CAPACITY objects has just been cleared: each of
\* them has been destroyed once, no other destructor ran, the map is empty.
C26_Witness ==
    /\ kind = "ArrayMap"
    /\ last = Call("clear", "Return", "-")
    /\ life = "live"
    /\ Cardinality(made) = CAPACITY
    /\ \A o \in made : drops[o] = 1
    /\ wild = 0
    /\ map.len = 0

(***************************************************************************)
(* Absent keys (SpecIndex).  ref tells which keys the map should hold.     *)
(***************************************************************************)
\* What get, remove and map[key] answer in the current state.
AbsentKeyAnswers ==
    /\ kind = "ArrayMap" =>
           \A k \in Keys :
               IF ref[k] = None
               THEN /\ get(map, k) = None
                    /\ remove(map, k) = [map |-> map, res |-> Return(None)]
                    /\ index(map, k) = Panic
               ELSE /\ get(map, k) = ref[k]
                    /\ index(map, k) = Return(ref[k][1])
    /\ kind = "TinyMap" =>
           \A k \in Keys :
               IF ref[k] = None
               THEN /\ tiny_get(tmap, k) = None
                    /\ tiny_remove(tmap, k) = [map |-> tmap, res |-> Return(None)]
                    /\ tiny_index(tmap, k) = Panic
               ELSE /\ tiny_get(tmap, k) = ref[k]
                    /\ tiny_index(tmap, k) = Return(ref[k][1])

\* C27: for an ArrayMap and for a TinyMap in Stack or Heap state, get and
\* remove of an absent key return None (remove leaving the map as it is),
\* map[key] returns the stored value of a present key and panics on an
\* absent one, and a map[key] step leaves the map unchanged either way.
C27_AbsentKey ==
    /\ []AbsentKeyAnswers
    /\ [][last'.op = "index" => map' = map /\ tmap' = tmap /\ ref' = ref]_vars

\* A TinyMap on the heap, one key removed again, has just panicked on map[key].
C27_Witness ==
    /\ kind = "TinyMap"
    /\ tmap.tag = "Heap"
    /\ tiny_len(tmap) = CAPACITY
    /\ last = Call("index", "Panic", "-")

(***************************************************************************)
(* lib.rs (SpecLib).                                                       *)
(***************************************************************************)
\* What get can answer for key on m.
LibAnswers(m, key) == {lib_get(m, f) : f \in lib_find(m, key)}

\* C28: in the ArrayMap of lib.rs, remove(key) returns the value stored
\* under key if key is present and None otherwise; afterwards key is not
\* found, every other key answers as before, and len is one less (unchanged
\* when key was absent).
C28_LibRemove ==
    (kind = "LibArrayMap" /\ map.len <= LibCapacity) =>
        \A key \in Keys : \A f \in lib_find(map, key) :
            LET r == lib_remove(map, f)
            IN IF f.ok
               THEN /\ r.res = Return(Some(map.array[f.i][2]))
                    /\ r.map.len = map.len - 1
                    /\ LibAnswers(r.map, key) = {Return(None)}
                    /\ \A o \in Keys \ {key} :
                           LibAnswers(r.map, o) = LibAnswers(map, o)
               ELSE r = [map |-> map, res |-> Return(None)]

(***************************************************************************)
(* Slot occupancy of ArrayMap / ArraySet (SpecFixed).                      *)
(***************************************************************************)
\* The fixed container under test.
Fixed == IF kind = "ArrayMap" THEN map ELSE set

\* The slots whose being empty or occupied differs between c and d.
Turned(c, d) == {i \in Indices : (c.array[i] = Uninit) # (d.array[i] = Uninit)}

\* Exactly the slots [0, len) are occupied, and what the calls dereference
\* or destroy lies among them.
OccupiedExactly ==
    kind \in {"ArrayMap", "ArraySet"} =>
        /\ Fixed.len \in 0..CAPACITY
        /\ \A i \in Indices : (Fixed.array[i] # Uninit) <=> (i < Fixed.len)
        /\ Inside(Fixed, clear_reads(Fixed))
        /\ \A key \in Keys :
               /\ Inside(Fixed, find_reads(Fixed, key))
               /\ Inside(Fixed, remove_reads(Fixed, key))

\* What a call does to the slots.
SlotsStep ==
    kind \in {"ArrayMap", "ArraySet"} =>
        IF last'.op = "clear" THEN Turned(Fixed, Fixed') = 0..(Fixed.len - 1)
        ELSE IF Fixed'.len = Fixed.len + 1 THEN Turned(Fixed, Fixed') = {Fixed.len}
        ELSE IF Fixed'.len = Fixed.len - 1
             THEN /\ Turned(Fixed, Fixed') = {Fixed'.len}
                  /\ last'.op \in {"remove", "occupied_remove"}
        ELSE Fixed'.len = Fixed.len /\ Turned(Fixed, Fixed') = {}

\* C29: in every state of an ArrayMap / ArraySet reached by insert,
\* try_insert, remove, clear and the entry calls, exactly the slots [0, len)
\* are occupied; a call that adds an element turns exactly one slot, the one
\* at the old len, from empty to occupied; a call that removes one turns
\* exactly one slot, the one at the new len, from occupied to empty; no call
\* dereferences or destroys an empty slot.
C29_OccupiedSlots ==
    /\ []OccupiedExactly
    /\ [][SlotsStep]_vars

\* An ArrayMap holding the keys 2..CAPACITY right after a remove that took
\* an entry out: the entries fill slots [0, len), the last slot is empty.
C29_Witness ==
    /\ kind = "ArrayMap"
    /\ last = Call("remove", "Return", "Some")
    /\ map.len = CAPACITY - 1
    /\ ref[1] = None
    /\ \A k \in 2..CAPACITY : ref[k] # None
    /\ map.array[CAPACITY - 1] = Uninit

(***************************************************************************)
(* The key object of a slot (SpecKey).                                     *)
(***************************************************************************)
\* C30 as stated: try_insert with a key object equal to a stored key
\* overwrites the value of the slot and leaves the key object of the slot
\* the one that was there.
C30_KeyObjectKept ==
    kind = "ArrayMap" =>
        \A key \in KeyObjects, value \in Values :
            LET f == find(map, key)
                r == try_insert(map, key, value)
            IN f.ok =>
                   /\ r.map.array[f.i][2] = value
                   /\ r.map.array[f.i][1] = map.array[f.i][1]

\* C30, amended: try_insert with a key object equal to a stored key replaces
\* key object and value of the slot together or not at all: either it
\* returns Ok(Some(old value)) and the slot holds the key object and the
\* value passed to the call, every other slot and len being as before, or it
\* returns Err with the pair passed and the map is as before.
C30_SlotReplacedWhole ==
    kind = "ArrayMap" =>
        \A key \in KeyObjects, value \in Values :
            LET f == find(map, key)
                r == try_insert(map, key, value)
            IN f.ok =>
                   IF r.res.tag = "Ok"
                   THEN /\ r.res = Ok(Some(map.array[f.i][2]))
                        /\ r.map.array[f.i] = <<key, value>>
                        /\ r.map.len = map.len
                        /\ \A i \in Indices \ {f.i} : r.map.array[i] = map.array[i]
                   ELSE /\ r.res = Err(<<key, value>>)
                        /\ r.map = map

\* Key 1 sits in a two-entry map under its second key object, put there by
\* a try_insert that returned the old value.
C30_Witness ==
    /\ kind = "ArrayMap"
    /\ last = Call("try_insert", "Ok", "Some")
    /\ map.len = 2
    /\ map.array[0] = <<1 + MaxKey, MaxValue>>
    /\ ref[1] = Some(MaxValue)

(***************************************************************************)
(* lib.rs: insert of a key that is not stored (SpecLib).                   *)
(***************************************************************************)
\* The keys held by the slots [0, len) of m.
LibStored(m) == {m.array[i][1] : i \in 0..(m.len - 1)}

\* C34: in the ArrayMap of lib.rs, insert of a key that is not stored into
\* a map with len < CAPACITY returns None; afterwards every key stored
\* before is found with its value, the new key is found with the value
\* passed, len is one more and the keys of slots [0, len) ascend strictly.
C34_LibInsertNew ==
    (kind = "LibArrayMap" /\ map.len < LibCapacity) =>
        \A key \in Keys \ LibStored(map), value \in Values :
            \A f \in lib_find(map, key) :
                LET r == lib_insert(map, key, value, f)
                IN ~f.ok =>
                       /\ r.res = Return(None)
                       /\ r.map.len = map.len + 1
                       /\ LibAnswers(r.map, key) = {Return(Some(value))}
                       /\ \A i \in 0..(map.len - 1) :
                              LibAnswers(r.map, map.array[i][1])
                                  = {Return(Some(map.array[i][2]))}
                       /\ \A n \in 0..(r.map.len - 2) :
                              r.map.array[n][1] < r.map.array[n + 1][1]

\* C35: in the ArrayMap of lib.rs, len <= CAPACITY in every state insert and
\* remove lead to, and insert of a key that is not stored into a map with
\* len = CAPACITY leaves array and len as they were.
C35_LibLenBounded ==
    kind = "LibArrayMap" =>
        /\ map.len <= LibCapacity
        /\ map.len = LibCapacity =>
               \A key \in Keys \ LibStored(map), value \in Values :
                   \A f \in lib_find(map, key) :
                       ~f.ok => lib_insert(map, key, value, f).map = map

(***************************************************************************)
(* From<array> (SpecCollect).                                              *)
(***************************************************************************)
\* C31: an ArrayMap / ArraySet made by From from a full backing array, equal
\* keys in the array included, iterates in strictly ascending key order,
\* holds each key once, and its len is the number of different keys of the
\* array.
C31_FromArrayNoDuplicates ==
    Len(input) = CAPACITY =>
        /\ \A m \in from(ArrayOf(Pairs(input))) :
               /\ StrictlyAscending(KeySeq(iter(m)))
               /\ Distinct(KeySeq(iter(m)))
               /\ m.len = Cardinality({input[n] : n \in 1..Len(input)})
        /\ \A s \in set_from(ArrayOf([n \in 1..Len(input) |-> EntryNew(input[n])])) :
               /\ StrictlyAscending(KeySeq(set_iter(s)))
               /\ Distinct(KeySeq(set_iter(s)))
               /\ s.len = Cardinality({input[n] : n \in 1..Len(input)})

(***************************************************************************)
(* Extend for ArrayMap (SpecExtend).                                       *)
(***************************************************************************)
\* try_insert called on every item from item n on, rejections ignored.
RECURSIVE try_insert_each(_, _, _)
try_insert_each(m, items, n) ==
    IF n > Len(items) THEN m
    ELSE try_insert_each(try_insert(m, items[n][1], items[n][2]).map, items, n + 1)

EntriesOf(t) == btree_iter([k \in Keys |-> tiny_get(t, k)])

\* The items of a TinySet in ascending order, from what contains answers.
ItemsOf(t) == btreeset_iter({k \in Keys : tinyset_contains(t, k)})

\* C33: two TinyMaps (TinySets) compare equal exactly when their ascending
\* sequences of entries are equal, whichever of Stack and Heap each is in;
\* so a Stack and a Heap container with the same entries compare equal.
C33_EqByContents ==
    /\ kind = "TinyMap" =>
           /\ tiny_eq(tmap, output) <=> EntriesOf(tmap) = EntriesOf(output)
           /\ last.op = "eq" => last.out = BoolOut(EntriesOf(tmap) = EntriesOf(output))
    /\ kind = "TinySet" =>
           /\ tinyset_eq(tset, output) <=> ItemsOf(tset) = ItemsOf(output)
           /\ last.op = "eq" => last.out = BoolOut(ItemsOf(tset) = ItemsOf(output))

\* A Stack TinyMap with CAPACITY entries has been compared with a Heap
\* TinyMap and found equal.
C33_Witness ==
    /\ kind = "TinyMap"
    /\ tmap.tag = "Stack"
    /\ output.tag = "Heap"
    /\ tiny_len(tmap) = CAPACITY
    /\ last = Call("eq", "Return", "true")

=============================================================================
